---- MODULE Spec2Model ----
(***************************************************************************)
(* Analysis-job state machine of the code-analysis backend                 *)
(* (AnalysisService / ExplanationService), the targeted working file set   *)
(* and the batched symbol explanation.                                     *)
(*                                                                         *)
(* Every await of the TypeScript code is one step of the model: the store  *)
(* (Prisma) executes one query atomically, and other requests and          *)
(* background runs interleave between two awaits of a run.                 *)
(***************************************************************************)
EXTENDS Integers, Sequences, FiniteSets, TLC

\* ------------------------------------------------------------------ bounds
MaxJobs == 2
MaxFiles == 2
MaxVulns == 1

\* ------------------------------------------------------- program constants
BatchSize == 5
DefaultMaxSymbols == 50

JobIds == 1 .. MaxJobs
Calls == 1 .. MaxJobs

AnalysisTypes == {"VULNERABILITY", "EXPLANATION", "RECOMMENDATION", "FULL"}
AnalysisStatuses == {"PENDING", "PROCESSING", "COMPLETED", "FAILED", "CANCELLED"}
Terminal == {"COMPLETED", "FAILED", "CANCELLED"}

DefaultLanguages == {"typescript", "javascript", "python", "go"}
LanguageChoices == {DefaultLanguages, {"typescript"}}

\* The source files a project may hold: language and number of symbols the
\* Symbol Extractor finds in it (none, or a full batch and one more).
FileKinds ==
  { [language |-> "typescript", symbols |-> 0],
    [language |-> "python", symbols |-> BatchSize + 1] }

Projects == UNION { [1 .. n -> FileKinds] : n \in 0 .. MaxFiles }

VARIABLES
  project,          \* the extracted project: sequence of source files
  openaiAvailable,  \* OpenAIService.isAvailable(): an API key is configured
  reports,          \* table AnalysisReport, by id
  explRows,         \* table CodeExplanation: number of rows per reportId
  vulnRows,         \* table Vulnerability: number of rows per reportId
  nextId,           \* next AnalysisReport id the store hands out
  sa,               \* the startAnalysis calls
  run,              \* the background run (performAnalysis) of each job
  cancel,           \* the cancelAnalysis call of each job
  callsAllowed,     \* number of startAnalysis calls the clients make
  requests,         \* the analysis requests the clients may send
  symbolBatch,      \* one symbol batch of explainSymbols, taken alone
  targeted,         \* one targeted file selection, taken alone
  expansion,        \* one dependency expansion, taken alone
  indexRun,         \* the semantic index of a project and its indexing runs
  searchRun,        \* one semantic search, taken alone
  extraction,       \* one file given to the symbol extractor
  probe             \* one call of a pure function of the services, taken alone

vars == <<project, openaiAvailable, reports, explRows, vulnRows, nextId, sa, run, cancel, callsAllowed, requests, symbolBatch, targeted, expansion, indexRun, searchRun, extraction, probe>>

\* ------------------------------------------------------------- the records
EmptyResult ==
  [kind |-> "empty", filesAnalyzed |-> 0, totalSymbols |-> 0,
   explainedSymbols |-> 0, targetedAnalysis |-> FALSE, explanation |-> FALSE]

NoReport ==
  [exists |-> FALSE, type |-> "none", status |-> "none", percentage |-> 0,
   processedFiles |-> 0, totalFiles |-> 0, stepFile |-> 0, error |-> "none",
   result |-> EmptyResult]

IdleRun ==
  [pc |-> "none", type |-> "none", query |-> FALSE, languages |-> {},
   parsed |-> <<>>, fileIdx |-> 0, offset |-> 0, pending |-> 0,
   explainedCount |-> 0, totalExplained |-> 0, processedFiles |-> 0,
   error |-> "none", explanation |-> FALSE, hits |-> FALSE,
   providerError |-> FALSE]

IdleCancel ==
  [pc |-> "idle", userId |-> "none", result |-> FALSE, replaced |-> "none",
   inLoop |-> FALSE, atFile |-> 0]

NoBatch == [phase |-> "none"]
NoTargeted == [phase |-> "none"]
NoExpansion == [phase |-> "none"]
NoIndexRun == [phase |-> "none"]
NoSearchRun == [phase |-> "none"]
NoExtraction == [phase |-> "none"]
NoProbe == [phase |-> "none"]

IdleCall ==
  [pc |-> "idle", userId |-> "none", projectId |-> "none", type |-> "none",
   query |-> FALSE, languages |-> {}, oldIds |-> {}, job |-> 0, overlapped |-> FALSE]

\* --------------------------------------------------------- pure helpers
\* Math.round(processedFiles / totalFiles * 100)
RoundPercentage(processedFiles, totalFiles) ==
  (200 * processedFiles + totalFiles) \div (2 * totalFiles)

\* AstParserService.parseProject: the files whose extension belongs to one
\* of the requested languages, in directory order.
ParseProject(proj, languages) ==
  SelectSeq(proj, LAMBDA f : f.language \in languages)

\* Sub-sequences of a sequence (the files a targeted run ends up parsing).
RECURSIVE SubSeqs(_)
SubSeqs(s) ==
  IF s = <<>> THEN { <<>> }
  ELSE LET rest == SubSeqs(Tail(s))
       IN rest \cup { <<Head(s)>> \o t : t \in rest }

\* parsedFile.symbols.slice(0, options.maxSymbols || 50).length
SymbolsToExplain(file) ==
  IF file.symbols < DefaultMaxSymbols THEN file.symbols ELSE DefaultMaxSymbols

Min(a, b) == IF a < b THEN a ELSE b

SumSymbols(files) ==
  LET RECURSIVE Sum(_)
      Sum(s) == IF s = <<>> THEN 0 ELSE Head(s).symbols + Sum(Tail(s))
  IN Sum(files)

\* The requests startAnalysis can get: type, presence of a query, languages.
\* query and languages reach the explanation run only.
AllRequests ==
  { r \in [type : AnalysisTypes, query : BOOLEAN, languages : LanguageChoices] :
      r.type \in {"VULNERABILITY", "RECOMMENDATION"}
        => ~r.query /\ r.languages = DefaultLanguages }

\* ------------------------------------------------------------------ Init
Init ==
  /\ project \in Projects
  /\ openaiAvailable \in BOOLEAN
  /\ reports = [j \in JobIds |-> NoReport]
  /\ explRows = [j \in JobIds |-> 0]
  /\ vulnRows = [j \in JobIds |-> 0]
  /\ nextId = 1
  /\ probe = NoProbe
  /\ sa = [c \in Calls |-> IdleCall]
  /\ run = [j \in JobIds |-> IdleRun]
  /\ cancel = [j \in JobIds |-> IdleCancel]
  /\ callsAllowed = 1
  /\ requests = AllRequests
  /\ symbolBatch = NoBatch
  /\ expansion = NoExpansion
  /\ indexRun = NoIndexRun
  /\ searchRun = NoSearchRun
  /\ extraction = NoExtraction
  /\ targeted = NoTargeted

\* ------------------------------------------------------- startAnalysis
ActiveCall(c) == sa[c].pc \notin {"idle", "returned", "rejected"}

\* The callers, and the project ids they may name: the project under
\* analysis belongs to "owner", and "missing" names no project.
Users == {"owner", "other"}
ProjectIds == {"project", "missing"}

\* projectsService.findByIdForUser: the project when it exists and belongs
\* to the caller, NotFound otherwise.
FindByIdForUser(userId, projectId) == userId = "owner" /\ projectId = "project"

SA_IgnoreLookup(found) == "cleanup_find"

\* startAnalysis awaits the lookup first: when it throws, startAnalysis is
\* left with the error, otherwise the cleanup follows.
SA_AfterLookup(found) == IF found THEN "cleanup_find" ELSE "rejected"

\* startAnalysis up to the end of projectsService.findByIdForUser
SA_Begin(c) ==
  /\ sa[c].pc = "idle"
  /\ c <= callsAllowed
  /\ \A d \in Calls : d < c => sa[d].pc # "idle"
  /\ \E u \in Users, p \in ProjectIds :
       IF ~FindByIdForUser(u, p)
         THEN sa' = [sa EXCEPT ![c] =
                [IdleCall EXCEPT !.pc = SA_AfterLookup(FALSE), !.userId = u, !.projectId = p]]
         ELSE \E t \in AnalysisTypes, q \in BOOLEAN, l \in LanguageChoices :
           /\ [type |-> t, query |-> q, languages |-> l] \in requests
           /\ LET over == { d \in Calls : ActiveCall(d) /\ sa[d].type = t }
              IN sa' = [d \in Calls |->
                          IF d = c
                            THEN [IdleCall EXCEPT !.pc = SA_AfterLookup(TRUE),
                                    !.userId = u, !.projectId = p, !.type = t,
                                    !.query = q, !.languages = l,
                                    !.overlapped = (over # {})]
                          ELSE IF d \in over THEN [sa[d] EXCEPT !.overlapped = TRUE]
                          ELSE sa[d]]
  /\ UNCHANGED <<project, openaiAvailable, reports, explRows, vulnRows, nextId, run, cancel, callsAllowed, requests, symbolBatch, targeted, expansion, indexRun, searchRun, extraction, probe>>

\* cleanupOldAnalysisData: analysisReport.findMany({projectId, type})
SA_CleanupFind(c) ==
  /\ sa[c].pc = "cleanup_find"
  /\ LET old == { j \in JobIds : reports[j].exists /\ reports[j].type = sa[c].type }
     IN sa' = [sa EXCEPT ![c].oldIds = old,
                         ![c].pc = IF old = {} THEN "create" ELSE "del_vuln"]
  /\ UNCHANGED <<project, openaiAvailable, reports, explRows, vulnRows, nextId, run, cancel, callsAllowed, requests, symbolBatch, targeted, expansion, indexRun, searchRun, extraction, probe>>

\* cleanupOldAnalysisData: vulnerability.deleteMany({reportId in ids})
SA_DeleteVulnerabilities(c) ==
  /\ sa[c].pc = "del_vuln"
  /\ vulnRows' = [j \in JobIds |-> IF j \in sa[c].oldIds THEN 0 ELSE vulnRows[j]]
  /\ sa' = [sa EXCEPT ![c].pc = "del_expl"]
  /\ UNCHANGED <<project, openaiAvailable, reports, explRows, nextId, run, cancel, callsAllowed, requests, symbolBatch, targeted, expansion, indexRun, searchRun, extraction, probe>>

\* cleanupOldAnalysisData: codeExplanation.deleteMany({reportId in ids})
SA_DeleteExplanations(c) ==
  /\ sa[c].pc = "del_expl"
  /\ explRows' = [j \in JobIds |-> IF j \in sa[c].oldIds THEN 0 ELSE explRows[j]]
  /\ sa' = [sa EXCEPT ![c].pc = "del_reports"]
  /\ UNCHANGED <<project, openaiAvailable, reports, vulnRows, nextId, run, cancel, callsAllowed, requests, symbolBatch, targeted, expansion, indexRun, searchRun, extraction, probe>>

NoCascade(rows, ids) == rows

\* The rows that go with a deleted report: both child tables reference
\* AnalysisReport(id) ON DELETE CASCADE.
CascadeRows(rows, ids) ==
  [j \in JobIds |-> IF j \in ids THEN 0 ELSE rows[j]]

\* cleanupOldAnalysisData: analysisReport.deleteMany({id in ids})
SA_DeleteReports(c) ==
  /\ sa[c].pc = "del_reports"
  /\ reports' = [j \in JobIds |-> IF j \in sa[c].oldIds THEN NoReport ELSE reports[j]]
  /\ explRows' = CascadeRows(explRows, sa[c].oldIds)
  /\ vulnRows' = CascadeRows(vulnRows, sa[c].oldIds)
  /\ sa' = [sa EXCEPT ![c].pc = "create"]
  /\ UNCHANGED <<project, openaiAvailable, nextId, run, cancel, callsAllowed, requests, symbolBatch, targeted, expansion, indexRun, searchRun, extraction, probe>>

\* analysisReport.create(PENDING, zeroed progress), then
\* void performAnalysis(...) and return of the report
SA_Create(c) ==
  /\ sa[c].pc = "create"
  /\ nextId \in JobIds
  /\ reports' = [reports EXCEPT ![nextId] =
       [NoReport EXCEPT !.exists = TRUE, !.type = sa[c].type, !.status = "PENDING"]]
  /\ run' = [run EXCEPT ![nextId] =
       [IdleRun EXCEPT !.pc = "pa_check1", !.type = sa[c].type,
                       !.query = sa[c].query, !.languages = sa[c].languages]]
  /\ sa' = [sa EXCEPT ![c].pc = "returned", ![c].job = nextId]
  /\ nextId' = nextId + 1
  /\ UNCHANGED <<project, openaiAvailable, explRows, vulnRows, cancel, callsAllowed, requests, symbolBatch, targeted, expansion, indexRun, searchRun, extraction, probe>>

\* ------------------------------------------------------ store operations
UpdateReportStatusErasingResult(rep, status, percentage, error) ==
  IF rep.exists
    THEN [rep EXCEPT !.status = status, !.percentage = percentage, !.result = EmptyResult]
    ELSE rep

\* AnalysisService.updateReportStatus: findUnique, then update of status and
\* progress (and of error when one is given). A missing report, and any
\* error of the update, is logged and swallowed.
UpdateReportStatus(rep, status, percentage, error) ==
  IF rep.exists
    THEN [rep EXCEPT !.status = status, !.percentage = percentage,
                     !.processedFiles = 0, !.totalFiles = 0, !.stepFile = 0,
                     !.error = IF error # "none" THEN error ELSE @]
    ELSE rep

\* ExplanationService.updateProgress: findUnique, then update of progress
\* only. stepFile is the index of the file that currentStep names (0: none).
UpdateProgress(rep, stepFile, percentage, processedFiles, totalFiles) ==
  IF rep.exists
    THEN [rep EXCEPT !.percentage = percentage, !.processedFiles = processedFiles,
                     !.totalFiles = totalFiles, !.stepFile = stepFile]
    ELSE rep

\* checkCancellation: report?.status === 'CANCELLED'
IsCancelled(rep) == rep.exists /\ rep.status = "CANCELLED"

\* ------------------------------------------------- control flow of a run
\* catch of performAnalysis: a cancellation returns without a write, any
\* other error goes on to updateReportStatus(FAILED, 0, message).
PA_Catch(r, e) ==
  IF e = "AnalysisCancellationError"
    THEN [r EXCEPT !.pc = "done"]
    ELSE [r EXCEPT !.pc = "pa_failed", !.error = e]

\* An error thrown inside the try of performExplanation: its catch takes
\* every error, the cancellation included.
PE_Throw(r, e) == [r EXCEPT !.pc = "pe_catch", !.error = e]

\* explainProjectForReport returned to its caller without an error.
AfterExplanation(r) ==
  [r EXCEPT !.pc = IF r.type = "FULL" THEN "pfa_status70" ELSE "pa_check2"]

\* explainSymbols returned explainedCount to the per-file loop:
\* totalExplainedSymbols += explainedCount; processedFiles++
FinishFile(r) ==
  [r EXCEPT !.totalExplained = @ + r.explainedCount,
            !.processedFiles = @ + 1,
            !.pc = "pe_fileProgress"]

ES_CatchRethrows(r, e) == PE_Throw(r, e)

\* catch of explainSymbols: a cancellation is thrown on, any other error is
\* logged and the file ends with the count reached so far.
ES_Catch(r, e) ==
  IF e = "AnalysisCancellationError" THEN PE_Throw(r, e) ELSE FinishFile(r)

\* The per-file loop reaches file r.fileIdx: the loop ends, or explainSymbols
\* runs up to its first await (no provider or no symbol: it returns 0).
EnterFile(r) ==
  IF r.fileIdx > Len(r.parsed)
    THEN [r EXCEPT !.pc = IF r.query THEN "pe_cohesive" ELSE "pe_complete"]
  ELSE IF ~openaiAvailable \/ SymbolsToExplain(r.parsed[r.fileIdx]) = 0
    THEN FinishFile([r EXCEPT !.explainedCount = 0])
  ELSE [r EXCEPT !.explainedCount = 0, !.offset = 0, !.pc = "es_check"]

\* The updateReportStatus calls of performAnalysis and of the per-type
\* methods it calls: what each writes and where the run goes next.
StatusStep(pc, type) ==
  CASE pc = "pa_processing" ->
         [status |-> "PROCESSING", percentage |-> 0,
          next |-> CASE type = "VULNERABILITY" -> "pva_status10"
                     [] type = "EXPLANATION" -> "pea_status10"
                     [] type = "RECOMMENDATION" -> "pra_status10"
                     [] OTHER -> "pfa_status5"]
    [] pc = "pva_status10" -> [status |-> "PROCESSING", percentage |-> 10, next |-> "pva_scan"]
    [] pc = "pea_status10" -> [status |-> "PROCESSING", percentage |-> 10, next |-> "epr_project"]
    [] pc = "pra_status10" -> [status |-> "PROCESSING", percentage |-> 10, next |-> "pra_analyze"]
    [] pc = "pfa_status5" -> [status |-> "PROCESSING", percentage |-> 5, next |-> "pfa_status10"]
    [] pc = "pfa_status10" -> [status |-> "PROCESSING", percentage |-> 10, next |-> "pfa_scan"]
    [] pc = "pfa_status40" -> [status |-> "PROCESSING", percentage |-> 40, next |-> "epr_project"]
    [] pc = "pfa_status70" -> [status |-> "PROCESSING", percentage |-> 70, next |-> "pfa_recs"]
    [] pc = "pfa_status90" -> [status |-> "PROCESSING", percentage |-> 90, next |-> "pfa_write"]
    [] pc = "pa_complete" -> [status |-> "COMPLETED", percentage |-> 100, next |-> "done"]
    [] pc = "pa_failed" -> [status |-> "FAILED", percentage |-> 0, next |-> "done"]

StatusPcs ==
  {"pa_processing", "pva_status10", "pea_status10", "pra_status10", "pfa_status5",
   "pfa_status10", "pfa_status40", "pfa_status70", "pfa_status90", "pa_complete",
   "pa_failed"}

\* ------------------------------------------------------ performAnalysis
\* checkCancellation before the start
PA_CheckBefore(j) ==
  /\ run[j].pc = "pa_check1"
  /\ run' = [run EXCEPT ![j] =
       IF IsCancelled(reports[j])
         THEN PA_Catch(run[j], "AnalysisCancellationError")
         ELSE [run[j] EXCEPT !.pc = "pa_processing"]]
  /\ UNCHANGED <<project, openaiAvailable, reports, explRows, vulnRows, nextId, sa, cancel, callsAllowed, requests, symbolBatch, targeted, expansion, indexRun, searchRun, extraction, probe>>

\* one updateReportStatus call of the run
PA_UpdateStatus(j) ==
  /\ run[j].pc \in StatusPcs
  /\ LET w == StatusStep(run[j].pc, run[j].type)
     IN /\ reports' = [reports EXCEPT ![j] =
              UpdateReportStatus(@, w.status, w.percentage,
                                 IF run[j].pc = "pa_failed" THEN run[j].error ELSE "none")]
        /\ run' = [run EXCEPT ![j].pc = w.next]
  /\ UNCHANGED <<project, openaiAvailable, explRows, vulnRows, nextId, sa, cancel, callsAllowed, requests, symbolBatch, targeted, expansion, indexRun, searchRun, extraction, probe>>

\* one updateReportStatus call whose store update fails: the error is
\* logged and the run goes on
PA_UpdateStatusFails(j) ==
  /\ run[j].pc \in StatusPcs
  /\ run' = [run EXCEPT ![j].pc = StatusStep(run[j].pc, run[j].type).next]
  /\ UNCHANGED <<project, openaiAvailable, reports, explRows, vulnRows, nextId, sa, cancel, callsAllowed, requests, symbolBatch, targeted, expansion, indexRun, searchRun, extraction, probe>>

\* checkCancellation after the per-type method returned
PA_CheckAfter(j) ==
  /\ run[j].pc = "pa_check2"
  /\ run' = [run EXCEPT ![j] =
       IF IsCancelled(reports[j])
         THEN PA_Catch(run[j], "AnalysisCancellationError")
         ELSE [run[j] EXCEPT !.pc = "pa_complete"]]
  /\ UNCHANGED <<project, openaiAvailable, reports, explRows, vulnRows, nextId, sa, cancel, callsAllowed, requests, symbolBatch, targeted, expansion, indexRun, searchRun, extraction, probe>>

\* vulnerabilityService.scanProjectForReport (VULNERABILITY, and phase 1 of
\* FULL): attaches Vulnerability rows to the report.
ScanProjectForReport(j) ==
  /\ run[j].pc \in {"pva_scan", "pfa_scan"}
  /\ \E n \in 0 .. MaxVulns :
       vulnRows' = [vulnRows EXCEPT ![j] =
                      IF reports[j].exists /\ @ + n <= MaxVulns THEN @ + n ELSE @]
  /\ run' = [run EXCEPT ![j].pc = IF run[j].pc = "pva_scan" THEN "pa_check2" ELSE "pfa_status40"]
  /\ UNCHANGED <<project, openaiAvailable, reports, explRows, nextId, sa, cancel, callsAllowed, requests, symbolBatch, targeted, expansion, indexRun, searchRun, extraction, probe>>

\* recommendationsService.analyzeProject: parses the project and applies the
\* heuristics; no write to the store.
AnalyzeProject(j) ==
  /\ run[j].pc \in {"pra_analyze", "pfa_recs"}
  /\ run' = [run EXCEPT ![j].pc = IF run[j].pc = "pra_analyze" THEN "pra_write" ELSE "pfa_status90"]
  /\ UNCHANGED <<project, openaiAvailable, reports, explRows, vulnRows, nextId, sa, cancel, callsAllowed, requests, symbolBatch, targeted, expansion, indexRun, searchRun, extraction, probe>>

\* The result of performRecommendationAnalysis / performFullAnalysis, written
\* with progress {Completed, 100, 1, 1} and no status.
TypeResult(r, rep) ==
  IF r.type = "FULL"
    THEN [rep.result EXCEPT !.kind = "full"]
    ELSE [EmptyResult EXCEPT !.kind = "recommendation"]

\* analysisReport.update({result, progress}) of performRecommendationAnalysis
\* and performFullAnalysis: a missing report makes it throw.
WriteTypeResult(j) ==
  /\ run[j].pc \in {"pra_write", "pfa_write"}
  /\ IF reports[j].exists
       THEN /\ reports' = [reports EXCEPT ![j] =
                 [@ EXCEPT !.result = TypeResult(run[j], reports[j]),
                           !.percentage = 100, !.processedFiles = 1,
                           !.totalFiles = 1, !.stepFile = 0]]
            /\ run' = [run EXCEPT ![j].pc = "pa_check2"]
       ELSE /\ run' = [run EXCEPT ![j] = PA_Catch(@, "RecordNotFound")]
            /\ UNCHANGED reports
  /\ UNCHANGED <<project, openaiAvailable, explRows, vulnRows, nextId, sa, cancel, callsAllowed, requests, symbolBatch, targeted, expansion, indexRun, searchRun, extraction, probe>>

\* ------------------------------------------- the explanation provider call
\* What one chat-completion call can come back with: a provider error
\* (callOpenAI throws), text that is not JSON, JSON that is not an array, an
\* array with a null item, or an array of len objects.
ResponseKinds == {"error", "text", "value", "nullitem", "array"}

\* OpenAIService.parseMultipleResponse: the parsed array mapped item by item,
\* or expectedCount placeholders when JSON.parse, the Array.isArray test or
\* the mapping throws.
ParseMultipleResponse(response, expectedCount) ==
  IF response.kind = "array"
    THEN [i \in 1 .. response.len |-> "parsed"]
    ELSE [i \in 1 .. expectedCount |-> "placeholder"]

\* explainSymbols, row mapping: explanations.map((e, index) => row of
\* batch[index]). An explanation beyond the batch reads batch[index].name of
\* undefined and throws a TypeError.
ExplanationsToSave(batch, explanations) ==
  IF Len(explanations) > Len(batch)
    THEN [threw |-> TRUE, rows |-> <<>>]
    ELSE [threw |-> FALSE,
          rows |-> [i \in 1 .. Len(explanations) |->
                      [symbol |-> batch[i], text |-> explanations[i]]]]

\* symbols.slice(i, i + batchSize) of a file with n symbols, as indices
BatchAt(n, offset) ==
  [k \in 1 .. Min(BatchSize, n - offset) |-> offset + k]

\* The responses tried for a batch of n symbols.
Responses(n) ==
  { [kind |-> k, len |-> 0] : k \in ResponseKinds \ {"array"} }
    \cup { [kind |-> "array", len |-> m] : m \in (n - 1) .. (n + 1) }

\* --------------------------------- explainProjectForReport / performExplanation
\* explainProjectForReport: projectsService.findByIdForUser, then the start
\* of performExplanation
EPR_FindProject(j) ==
  /\ run[j].pc = "epr_project"
  /\ run' = [run EXCEPT ![j].pc = IF run[j].query THEN "pe_report" ELSE "pe_select"]
  /\ UNCHANGED <<project, openaiAvailable, reports, explRows, vulnRows, nextId, sa, cancel, callsAllowed, requests, symbolBatch, targeted, expansion, indexRun, searchRun, extraction, probe>>

\* targeted mode: analysisReport.findUnique({id}) for the projectId
PE_FindReport(j) ==
  /\ run[j].pc = "pe_report"
  /\ run' = [run EXCEPT ![j] =
       IF reports[j].exists
         THEN [@ EXCEPT !.pc = "pe_select"]
         ELSE PE_Throw(@, "ReportNotFound")]
  /\ UNCHANGED <<project, openaiAvailable, reports, explRows, vulnRows, nextId, sa, cancel, callsAllowed, requests, symbolBatch, targeted, expansion, indexRun, searchRun, extraction, probe>>

FallbackIgnoresLanguages(proj, languages) == proj

\* The files a targeted run falls back to when retrieval returns no hit.
FallbackFiles(proj, languages) == ParseProject(proj, languages)

\* What retrieval can come back with, and the files parsed for each: it
\* throws, it returns no hit (fallback), or it returns hits and the seeds
\* with their dependencies are parsed one by one.
SelectionOutcomes(r) ==
  IF r.query
    THEN { [error |-> "SearchFailed", hits |-> FALSE, files |-> <<>>] }
         \cup { [error |-> "none", hits |-> FALSE, files |-> FallbackFiles(project, r.languages)] }
         \cup { [error |-> "none", hits |-> TRUE, files |-> f] : f \in SubSeqs(project) }
    ELSE { [error |-> "none", hits |-> FALSE, files |-> ParseProject(project, r.languages)] }

\* performExplanation: retrieval, dependency analysis and parsing
PE_SelectFiles(j) ==
  /\ run[j].pc = "pe_select"
  /\ \E o \in SelectionOutcomes(run[j]) :
       run' = [run EXCEPT ![j] =
         IF o.error # "none"
           THEN PE_Throw(@, o.error)
           ELSE [@ EXCEPT !.parsed = o.files, !.hits = o.hits, !.pc = "pe_progress0"]]
  /\ UNCHANGED <<project, openaiAvailable, reports, explRows, vulnRows, nextId, sa, cancel, callsAllowed, requests, symbolBatch, targeted, expansion, indexRun, searchRun, extraction, probe>>

\* updateProgress('Analyzing code structure', 0, 0, totalFiles), then the
\* loop starts with the first file
PE_InitialProgress(j) ==
  /\ run[j].pc = "pe_progress0"
  /\ reports' = [reports EXCEPT ![j] = UpdateProgress(@, 0, 0, 0, Len(run[j].parsed))]
  /\ run' = [run EXCEPT ![j] = EnterFile([@ EXCEPT !.fileIdx = 1])]
  /\ UNCHANGED <<project, openaiAvailable, explRows, vulnRows, nextId, sa, cancel, callsAllowed, requests, symbolBatch, targeted, expansion, indexRun, searchRun, extraction, probe>>

\* explainSymbols: checkCancellation before a batch
ES_CheckCancellation(j) ==
  /\ run[j].pc = "es_check"
  /\ run' = [run EXCEPT ![j] =
       IF IsCancelled(reports[j])
         THEN ES_Catch(@, "AnalysisCancellationError")
         ELSE [@ EXCEPT !.pc = "es_call"]]
  /\ UNCHANGED <<project, openaiAvailable, reports, explRows, vulnRows, nextId, sa, cancel, callsAllowed, requests, symbolBatch, targeted, expansion, indexRun, searchRun, extraction, probe>>

\* explainSymbols: openaiService.explainMultipleSymbols(batch) and the row
\* mapping. A provider error or a TypeError ends the file with the count
\* reached so far.
ES_CallProvider(j) ==
  /\ run[j].pc = "es_call"
  /\ LET n == SymbolsToExplain(run[j].parsed[run[j].fileIdx])
         batch == BatchAt(n, run[j].offset)
     IN \E resp \in Responses(Len(batch)) :
          run' = [run EXCEPT ![j] =
            IF resp.kind = "error"
              THEN ES_Catch([@ EXCEPT !.providerError = TRUE], "ProviderError")
              ELSE LET mapped == ExplanationsToSave(batch,
                                   ParseMultipleResponse(resp, Len(batch)))
                   IN IF mapped.threw
                        THEN ES_Catch(@, "TypeError")
                        ELSE [@ EXCEPT !.pending = Len(mapped.rows), !.pc = "es_save"]]
  /\ UNCHANGED <<project, openaiAvailable, reports, explRows, vulnRows, nextId, sa, cancel, callsAllowed, requests, symbolBatch, targeted, expansion, indexRun, searchRun, extraction, probe>>

CreateManyBuffered(stored, rows) == stored

\* codeExplanation.createMany({data: rows}): the rows are in the table when
\* the call returns.
CreateMany(stored, rows) == stored + rows

\* explainSymbols: codeExplanation.createMany(rows). A row of a report that
\* no longer exists violates the foreign key; the error ends the file.
ES_SaveRows(j) ==
  /\ run[j].pc = "es_save"
  /\ LET r == run[j]
         n == SymbolsToExplain(r.parsed[r.fileIdx])
     IN IF reports[j].exists
          THEN /\ explRows' = [explRows EXCEPT ![j] = CreateMany(@, r.pending)]
               /\ run' = [run EXCEPT ![j] =
                    LET saved == [r EXCEPT !.explainedCount = @ + r.pending,
                                           !.offset = @ + BatchSize, !.pending = 0]
                    IN IF saved.offset < n
                         THEN [saved EXCEPT !.pc = "es_check"]
                         ELSE FinishFile(saved)]
          ELSE /\ run' = [run EXCEPT ![j] = ES_Catch([r EXCEPT !.pending = 0], "ForeignKeyError")]
               /\ UNCHANGED explRows
  /\ UNCHANGED <<project, openaiAvailable, reports, vulnRows, nextId, sa, cancel, callsAllowed, requests, symbolBatch, targeted, expansion, indexRun, searchRun, extraction, probe>>

\* updateProgress('Explaining <file>', round(processed / total * 100), ...)
\* after a file, then the loop goes to the next file
PE_FileProgress(j) ==
  /\ run[j].pc = "pe_fileProgress"
  /\ LET r == run[j]
     IN /\ reports' = [reports EXCEPT ![j] =
              UpdateProgress(@, r.fileIdx,
                             RoundPercentage(r.processedFiles, Len(r.parsed)),
                             r.processedFiles, Len(r.parsed))]
        /\ run' = [run EXCEPT ![j] = EnterFile([r EXCEPT !.fileIdx = @ + 1])]
  /\ UNCHANGED <<project, openaiAvailable, explRows, vulnRows, nextId, sa, cancel, callsAllowed, requests, symbolBatch, targeted, expansion, indexRun, searchRun, extraction, probe>>

\* targeted mode: the files are read again and generateCohesiveExplanation
\* is called; its error is logged and the result goes without explanation
PE_Cohesive(j) ==
  /\ run[j].pc = "pe_cohesive"
  /\ \E ok \in BOOLEAN :
       run' = [run EXCEPT ![j].explanation = ok, ![j].pc = "pe_complete"]
  /\ UNCHANGED <<project, openaiAvailable, reports, explRows, vulnRows, nextId, sa, cancel, callsAllowed, requests, symbolBatch, targeted, expansion, indexRun, searchRun, extraction, probe>>

\* The result object of performExplanation.
ExplanationResult(r) ==
  [kind |-> "explanation", filesAnalyzed |-> Len(r.parsed),
   totalSymbols |-> SumSymbols(r.parsed), explainedSymbols |-> r.totalExplained,
   targetedAnalysis |-> r.query, explanation |-> r.explanation]

\* analysisReport.update({status: COMPLETED, result, progress 100}); a
\* missing report makes it throw into the catch of performExplanation
PE_Complete(j) ==
  /\ run[j].pc = "pe_complete"
  /\ LET r == run[j]
     IN IF reports[j].exists
          THEN /\ reports' = [reports EXCEPT ![j] =
                    [@ EXCEPT !.status = "COMPLETED", !.result = ExplanationResult(r),
                              !.percentage = 100, !.processedFiles = r.processedFiles,
                              !.totalFiles = Len(r.parsed), !.stepFile = 0]]
               /\ run' = [run EXCEPT ![j] = AfterExplanation(r)]
          ELSE /\ run' = [run EXCEPT ![j] = PE_Throw(r, "RecordNotFound")]
               /\ UNCHANGED reports
  /\ UNCHANGED <<project, openaiAvailable, explRows, vulnRows, nextId, sa, cancel, callsAllowed, requests, symbolBatch, targeted, expansion, indexRun, searchRun, extraction, probe>>

\* What the catch of performExplanation writes for the error it caught.
FailedWrite(rep, error) == [rep EXCEPT !.status = "FAILED", !.error = error]

\* catch of performExplanation: analysisReport.update({status: FAILED,
\* error}); performExplanation then returns normally. A missing report makes
\* the update throw out of performExplanation.
PE_Catch(j) ==
  /\ run[j].pc = "pe_catch"
  /\ IF reports[j].exists
       THEN /\ reports' = [reports EXCEPT ![j] = FailedWrite(@, run[j].error)]
            /\ run' = [run EXCEPT ![j] = AfterExplanation(@)]
       ELSE /\ run' = [run EXCEPT ![j].pc = "epr_catch", ![j].error = "RecordNotFound"]
            /\ UNCHANGED reports
  /\ UNCHANGED <<project, openaiAvailable, explRows, vulnRows, nextId, sa, cancel, callsAllowed, requests, symbolBatch, targeted, expansion, indexRun, searchRun, extraction, probe>>

\* catch of explainProjectForReport: the same update, then the error is
\* thrown on to performAnalysis
EPR_Catch(j) ==
  /\ run[j].pc = "epr_catch"
  /\ reports' = [reports EXCEPT ![j] =
       IF @.exists THEN FailedWrite(@, run[j].error) ELSE @]
  /\ run' = [run EXCEPT ![j] = PA_Catch(@, "RecordNotFound")]
  /\ UNCHANGED <<project, openaiAvailable, explRows, vulnRows, nextId, sa, cancel, callsAllowed, requests, symbolBatch, targeted, expansion, indexRun, searchRun, extraction, probe>>

\* ----------------------------------------------------- getAnalysisStatus
\* getAnalysisStatus(reportId), as the controller calls it for any
\* authenticated caller: the report with its rows, or an error when no
\* report has the id.
GetAnalysisStatus(userId, j) ==
  IF reports[j].exists
    THEN [found |-> TRUE, report |-> reports[j]]
    ELSE [found |-> FALSE, report |-> NoReport]

\* ------------------------------------------------------- cancelAnalysis
\* The per-file loop of performExplanation is running.
InFileLoop(r) == r.pc \in {"es_check", "es_call", "es_save", "pe_fileProgress"}

\* cancelAnalysis: findUnique; false for a missing, COMPLETED or FAILED job
Cancel_Read(j) ==
  /\ cancel[j].pc = "idle"
  /\ j < nextId
  /\ \E u \in Users :
       cancel' = [cancel EXCEPT ![j] =
         IF ~reports[j].exists \/ reports[j].status \in {"COMPLETED", "FAILED"}
           THEN [@ EXCEPT !.pc = "returned", !.userId = u, !.result = FALSE]
           ELSE [@ EXCEPT !.pc = "write", !.userId = u]]
  /\ UNCHANGED <<project, openaiAvailable, reports, explRows, vulnRows, nextId, sa, run, callsAllowed, requests, symbolBatch, targeted, expansion, indexRun, searchRun, extraction, probe>>

\* cancelAnalysis: update({status: CANCELLED, progress zeroed}); true.
\* The call remembers the status it replaced and where the run stood.
Cancel_Write(j) ==
  /\ cancel[j].pc = "write"
  /\ IF reports[j].exists
       THEN /\ reports' = [reports EXCEPT ![j] =
                 [@ EXCEPT !.status = "CANCELLED", !.percentage = 0,
                           !.processedFiles = 0, !.totalFiles = 0, !.stepFile = 0]]
            /\ cancel' = [cancel EXCEPT ![j] =
                 [pc |-> "returned", userId |-> cancel[j].userId, result |-> TRUE,
                  replaced |-> reports[j].status,
                  inLoop |-> InFileLoop(run[j]), atFile |-> run[j].fileIdx]]
       ELSE /\ cancel' = [cancel EXCEPT ![j].pc = "threw"]
            /\ UNCHANGED reports
  /\ UNCHANGED <<project, openaiAvailable, explRows, vulnRows, nextId, sa, run, callsAllowed, requests, symbolBatch, targeted, expansion, indexRun, searchRun, extraction, probe>>

\* The steps of a background run that are possible while its report exists.
RunStep(j) ==
  \/ PA_CheckBefore(j)
  \/ PA_UpdateStatus(j)
  \/ PA_CheckAfter(j)
  \/ ScanProjectForReport(j)
  \/ AnalyzeProject(j)
  \/ WriteTypeResult(j)
  \/ EPR_FindProject(j)
  \/ PE_FindReport(j)
  \/ PE_SelectFiles(j)
  \/ PE_InitialProgress(j)
  \/ ES_CheckCancellation(j)
  \/ ES_CallProvider(j)
  \/ ES_SaveRows(j)
  \/ PE_FileProgress(j)
  \/ PE_Cohesive(j)
  \/ PE_Complete(j)
  \/ PE_Catch(j)

\* One analysis request, its background run and a cancel request.
Next ==
  \/ \E c \in Calls : SA_Begin(c)
  \/ \E c \in Calls : SA_CleanupFind(c)
  \/ \E c \in Calls : SA_Create(c)
  \/ \E j \in JobIds : RunStep(j)
  \/ \E j \in JobIds : Cancel_Read(j)
  \/ \E j \in JobIds : Cancel_Write(j)

Spec == Init /\ [][Next]_vars

\* A background run is a promise chain on the event loop: a step whose await
\* has returned is eventually taken.
FairSpec == Spec /\ \A j \in JobIds : WF_vars(RunStep(j))

\* The same system on a store whose status updates may fail.
NextFaulty ==
  \/ Next
  \/ \E j \in JobIds : PA_UpdateStatusFails(j)

SpecFaulty == Init /\ [][NextFaulty]_vars

\* Repeated analysis requests on one project, with their background runs.
RerunProjects == { p \in Projects : Len(p) = 1 }
RerunRequests ==
  { r \in AllRequests : r.languages = DefaultLanguages /\ (r.query => r.type = "EXPLANATION") }

InitRerun ==
  /\ project \in RerunProjects
  /\ openaiAvailable = TRUE
  /\ reports = [j \in JobIds |-> NoReport]
  /\ explRows = [j \in JobIds |-> 0]
  /\ vulnRows = [j \in JobIds |-> 0]
  /\ nextId = 1
  /\ probe = NoProbe
  /\ sa = [c \in Calls |-> IdleCall]
  /\ run = [j \in JobIds |-> IdleRun]
  /\ cancel = [j \in JobIds |-> IdleCancel]
  /\ callsAllowed = MaxJobs
  /\ requests = RerunRequests
  /\ symbolBatch = NoBatch
  /\ expansion = NoExpansion
  /\ indexRun = NoIndexRun
  /\ searchRun = NoSearchRun
  /\ extraction = NoExtraction
  /\ targeted = NoTargeted

NextRerun ==
  \/ \E c \in Calls : SA_Begin(c)
  \/ \E c \in Calls : SA_CleanupFind(c)
  \/ \E c \in Calls : SA_DeleteVulnerabilities(c)
  \/ \E c \in Calls : SA_DeleteExplanations(c)
  \/ \E c \in Calls : SA_DeleteReports(c)
  \/ \E c \in Calls : SA_Create(c)
  \/ \E j \in JobIds : RunStep(j)
  \/ \E j \in JobIds : EPR_Catch(j)

SpecRerun == InitRerun /\ [][NextRerun]_vars
\* ------------------------------------------- one symbol batch, taken alone
MaxFileSymbols == 7

\* The symbol with index k of the file being explained.
SymbolAt(k) ==
  [name |-> k, type |-> IF k % 2 = 0 THEN "function" ELSE "class",
   lineStart |-> 10 * k, lineEnd |-> 10 * k + k]

\* All responses to a batch of n symbols, arrays of up to n + 1 items.
AllResponses(n) ==
  { [kind |-> k, len |-> 0] : k \in ResponseKinds \ {"array"} }
    \cup { [kind |-> "array", len |-> m] : m \in 0 .. (n + 1) }

InitBatch ==
  /\ \E n \in 1 .. MaxFileSymbols :
       \E offset \in { o \in 0 .. (n - 1) : o % BatchSize = 0 } :
         LET symbols == [k \in DOMAIN BatchAt(n, offset) |-> SymbolAt(BatchAt(n, offset)[k])]
         IN \E resp \in AllResponses(Len(symbols)) :
              symbolBatch = [phase |-> "call", symbols |-> symbols, response |-> resp,
                       explanations |-> <<>>, threw |-> FALSE, rows |-> <<>>,
                       persisted |-> <<>>]
  /\ project = <<>>
  /\ openaiAvailable = TRUE
  /\ reports = [j \in JobIds |-> NoReport]
  /\ explRows = [j \in JobIds |-> 0]
  /\ vulnRows = [j \in JobIds |-> 0]
  /\ nextId = 1
  /\ probe = NoProbe
  /\ sa = [c \in Calls |-> IdleCall]
  /\ run = [j \in JobIds |-> IdleRun]
  /\ cancel = [j \in JobIds |-> IdleCancel]
  /\ callsAllowed = 0
  /\ requests = {}
  /\ targeted = NoTargeted
  /\ expansion = NoExpansion
  /\ indexRun = NoIndexRun
  /\ searchRun = NoSearchRun
  /\ extraction = NoExtraction

JobVars ==
  <<project, openaiAvailable, reports, explRows, vulnRows, nextId, sa, run, cancel,
    callsAllowed, requests, probe>>

\* explainMultipleSymbols(batch): the provider answers, the answer is parsed
B_CallProvider ==
  /\ symbolBatch.phase = "call"
  /\ symbolBatch' =
       IF symbolBatch.response.kind = "error"
         THEN [symbolBatch EXCEPT !.phase = "done", !.threw = TRUE]
         ELSE [symbolBatch EXCEPT !.phase = "map",
                 !.explanations = ParseMultipleResponse(symbolBatch.response, Len(symbolBatch.symbols))]
  /\ UNCHANGED <<JobVars, targeted, expansion, indexRun, searchRun, extraction, probe>>

\* explanations.map(...) to rows of the batch
B_MapRows ==
  /\ symbolBatch.phase = "map"
  /\ LET mapped == ExplanationsToSave(symbolBatch.symbols, symbolBatch.explanations)
     IN symbolBatch' =
          IF mapped.threw
            THEN [symbolBatch EXCEPT !.phase = "done", !.threw = TRUE]
            ELSE [symbolBatch EXCEPT !.phase = "save", !.rows = mapped.rows]
  /\ UNCHANGED <<JobVars, targeted, expansion, indexRun, searchRun, extraction, probe>>

\* codeExplanation.createMany(rows)
B_SaveRows ==
  /\ symbolBatch.phase = "save"
  /\ symbolBatch' = [symbolBatch EXCEPT !.phase = "done", !.persisted = symbolBatch.rows]
  /\ UNCHANGED <<JobVars, targeted, expansion, indexRun, searchRun, extraction, probe>>

NextBatch == B_CallProvider \/ B_MapRows \/ B_SaveRows

SpecBatch == InitBatch /\ [][NextBatch]_vars

\* ------------------------------------- one targeted selection, taken alone
MaxSeeds == 2
MaxImports == 1
TargetedDepth == 1

\* A path string, as its directory segments and its file name.
Path(dirs, base, ext) == [dirs |-> dirs, file |-> [base |-> base, ext |-> ext]]

\* The files of the project: a.ts, b.ts and lib/b.ts.
ProjectFiles == {Path(<<>>, "a", "ts"), Path(<<>>, "b", "ts"), Path(<<"lib">>, "b", "ts")}

\* The import specifiers a file may hold: "./a", "./b", "./b.js", "../a", "lodash".
ImportSpecifiers ==
  {Path(<<".">>, "a", ""), Path(<<".">>, "b", ""), Path(<<".">>, "b", "js"),
   Path(<<"..">>, "a", ""), Path(<<>>, "lodash", "")}

ImportLists == UNION { [1 .. n -> ImportSpecifiers] : n \in 0 .. MaxImports }

\* The files retrieved for the query: distinct indexed files of the project.
SeedLists ==
  { s \in UNION { [1 .. n -> ProjectFiles] : n \in 1 .. MaxSeeds } :
      \A i, k \in DOMAIN s : i # k => s[i] # s[k] }

NoPath == Path(<<>>, "", "")

\* resolveJavaScriptImport: null for a specifier that does not start with
\* "./" or "../"; otherwise the specifier itself, a final .js or .ts cut off
\* and ".ts" appended.
ResolveJavaScriptImport(importPath) ==
  IF importPath.dirs = <<>> \/ importPath.dirs[1] \notin {".", ".."}
    THEN NoPath
    ELSE Path(importPath.dirs, importPath.file.base, "ts")

\* extractJavaScriptImports: the resolved specifiers of the import lines
ExtractJavaScriptImports(content) ==
  SelectSeq([i \in DOMAIN content |-> ResolveJavaScriptImport(content[i])],
            LAMBDA p : p # NoPath)

\* path.join(projectPath, filePath) and the file system's own resolution of
\* `${projectPath}/${filePath}`: "." dropped, ".." one directory up, which
\* from the project directory leaves the project.
RECURSIVE NormalizeDirs(_, _, _, _)
NormalizeDirs(dirs, i, stack, outside) ==
  IF i > Len(dirs) THEN [outside |-> outside, dirs |-> stack]
  ELSE IF dirs[i] = "." THEN NormalizeDirs(dirs, i + 1, stack, outside)
  ELSE IF dirs[i] = ".."
    THEN IF stack = <<>>
           THEN NormalizeDirs(dirs, i + 1, stack, TRUE)
           ELSE NormalizeDirs(dirs, i + 1, SubSeq(stack, 1, Len(stack) - 1), outside)
  ELSE NormalizeDirs(dirs, i + 1, Append(stack, dirs[i]), outside)

FullPath(filePath) ==
  LET n == NormalizeDirs(filePath.dirs, 1, <<>>, FALSE)
  IN [outside |-> n.outside, path |-> [dirs |-> n.dirs, file |-> filePath.file]]

\* fsp.readFile succeeds on the files of the project, the domain of imports
Readable(imports, filePath) ==
  /\ ~FullPath(filePath).outside
  /\ FullPath(filePath).path \in DOMAIN imports

\* findDependenciesRecursive, with st = [dependencies, visited, reads]; the
\* loop over the imports of a file is ImportLoop. reads lists the files
\* that readFile has returned, in order.
RECURSIVE FindDependenciesRecursive(_, _, _, _, _)
RECURSIVE ImportLoop(_, _, _, _, _, _)
FindDependenciesRecursive(imports, filePath, st, currentDepth, maxDepth) ==
  IF currentDepth >= maxDepth \/ filePath \in st.visited THEN st
  ELSE LET seen == [st EXCEPT !.visited = @ \cup {filePath}]
       IN IF ~Readable(imports, filePath) THEN seen
          ELSE ImportLoop(imports, ExtractJavaScriptImports(imports[FullPath(filePath).path]),
                          1, [seen EXCEPT !.reads = Append(@, FullPath(filePath).path)],
                          currentDepth, maxDepth)

ImportLoop(imports, found, i, st, currentDepth, maxDepth) ==
  IF i > Len(found) THEN st
  ELSE IF \E k \in DOMAIN st.dependencies : st.dependencies[k] = found[i]
    THEN ImportLoop(imports, found, i + 1, st, currentDepth, maxDepth)
  ELSE ImportLoop(imports, found, i + 1,
         FindDependenciesRecursive(imports, found[i],
           [st EXCEPT !.dependencies = Append(@, found[i])],
           currentDepth + 1, maxDepth),
         currentDepth, maxDepth)

\* findDependencies: the recursion from the seed at depth 0
Expand(imports, filePath, maxDepth) ==
  FindDependenciesRecursive(imports, filePath,
    [dependencies |-> <<>>, visited |-> {}, reads |-> <<>>], 0, maxDepth)

\* findDependencies: Array.from(dependencies)
FindDependencies(imports, filePath, maxDepth) == Expand(imports, filePath, maxDepth).dependencies

\* analyzeProjectDependencies: the Map file -> dependencies, in insertion order
AnalyzeProjectDependencies(imports, filePaths, maxDepth) ==
  [i \in DOMAIN filePaths |->
     [filePath |-> filePaths[i], deps |-> FindDependencies(imports, filePaths[i], maxDepth)]]

\* Set.add of each path of a sequence, in order
RECURSIVE AddAll(_, _, _)
AddAll(set, paths, i) ==
  IF i > Len(paths) THEN set
  ELSE AddAll(IF \E k \in DOMAIN set : set[k] = paths[i] THEN set ELSE Append(set, paths[i]),
              paths, i + 1)

\* allFilePaths: each file of the Map, then its dependencies
RECURSIVE AllFilePaths(_, _, _)
AllFilePaths(dependencies, i, set) ==
  IF i > Len(dependencies) THEN set
  ELSE AllFilePaths(dependencies, i + 1,
         AddAll(AddAll(set, <<dependencies[i].filePath>>, 1), dependencies[i].deps, 1))

\* the parse loop: a path that cannot be read is skipped
ParseFiles(imports, allFilePaths) ==
  SelectSeq(allFilePaths, LAMBDA p : Readable(imports, p))

InitTargeted ==
  /\ \E imports \in [ProjectFiles -> ImportLists] : \E seeds \in SeedLists :
       targeted = [phase |-> "search", imports |-> imports, relevantFiles |-> seeds,
                   dependencies |-> <<>>, allFilePaths |-> <<>>, parsedFiles |-> <<>>,
                   filesAnalyzed |-> 0]
  /\ project = <<>>
  /\ openaiAvailable = TRUE
  /\ reports = [j \in JobIds |-> NoReport]
  /\ explRows = [j \in JobIds |-> 0]
  /\ vulnRows = [j \in JobIds |-> 0]
  /\ nextId = 1
  /\ probe = NoProbe
  /\ sa = [c \in Calls |-> IdleCall]
  /\ run = [j \in JobIds |-> IdleRun]
  /\ cancel = [j \in JobIds |-> IdleCancel]
  /\ callsAllowed = 0
  /\ requests = {}
  /\ symbolBatch = NoBatch
  /\ expansion = NoExpansion
  /\ indexRun = NoIndexRun
  /\ searchRun = NoSearchRun
  /\ extraction = NoExtraction

\* performExplanation: analyzeProjectDependencies(projectPath, filePaths, 1)
T_AnalyzeDependencies ==
  /\ targeted.phase = "search"
  /\ targeted' = [targeted EXCEPT !.phase = "collect",
       !.dependencies = AnalyzeProjectDependencies(targeted.imports, targeted.relevantFiles,
                                                   TargetedDepth)]
  /\ UNCHANGED <<JobVars, symbolBatch, expansion, indexRun, searchRun, extraction, probe>>

\* performExplanation: the relevant files and their dependencies collected
T_CollectPaths ==
  /\ targeted.phase = "collect"
  /\ targeted' = [targeted EXCEPT !.phase = "parse",
       !.allFilePaths = AllFilePaths(targeted.dependencies, 1, <<>>)]
  /\ UNCHANGED <<JobVars, symbolBatch, expansion, indexRun, searchRun, extraction, probe>>

\* performExplanation: parseFile of each collected path
T_ParseFiles ==
  /\ targeted.phase = "parse"
  /\ targeted' = [targeted EXCEPT !.phase = "explain",
       !.parsedFiles = ParseFiles(targeted.imports, targeted.allFilePaths)]
  /\ UNCHANGED <<JobVars, symbolBatch, expansion, indexRun, searchRun, extraction, probe>>

\* performExplanation: result.filesAnalyzed = totalFiles = parsedFiles.length
T_WriteResult ==
  /\ targeted.phase = "explain"
  /\ targeted' = [targeted EXCEPT !.phase = "done",
       !.filesAnalyzed = Len(targeted.parsedFiles)]
  /\ UNCHANGED <<JobVars, symbolBatch, expansion, indexRun, searchRun, extraction, probe>>

NextTargeted == T_AnalyzeDependencies \/ T_CollectPaths \/ T_ParseFiles \/ T_WriteResult

SpecTargeted == InitTargeted /\ [][NextTargeted]_vars

\* ------------------------------------ one dependency expansion, taken alone
MaxDepth == 2
MaxDepImports == 2

\* The files of the project: a.ts, b.ts, c.ts and lib/a.ts.
DepFiles ==
  {Path(<<>>, "a", "ts"), Path(<<>>, "b", "ts"), Path(<<>>, "c", "ts"),
   Path(<<"lib">>, "a", "ts")}

\* The import specifiers of these files: "./a", "./b", "./c", "./lib/a".
DepSpecifiers ==
  {Path(<<".">>, "a", ""), Path(<<".">>, "b", ""), Path(<<".">>, "c", ""),
   Path(<<".", "lib">>, "a", "")}

\* The import lines of one file: up to MaxDepImports different specifiers.
DepImportLists ==
  { l \in UNION { [1 .. n -> DepSpecifiers] : n \in 0 .. MaxDepImports } :
      \A i, k \in DOMAIN l : i # k => l[i] # l[k] }

\* The seeds: a file of the project directory and a file of a subdirectory.
DepSeeds == {Path(<<>>, "a", "ts"), Path(<<"lib">>, "a", "ts")}

InitDependencies ==
  /\ \E imports \in [DepFiles -> DepImportLists] :
       \E seed \in DepSeeds : \E maxDepth \in 1 .. MaxDepth :
         expansion = [phase |-> "start", imports |-> imports, seed |-> seed,
                      maxDepth |-> maxDepth, dependencies |-> <<>>, reads |-> <<>>]
  /\ project = <<>>
  /\ openaiAvailable = TRUE
  /\ reports = [j \in JobIds |-> NoReport]
  /\ explRows = [j \in JobIds |-> 0]
  /\ vulnRows = [j \in JobIds |-> 0]
  /\ nextId = 1
  /\ probe = NoProbe
  /\ sa = [c \in Calls |-> IdleCall]
  /\ run = [j \in JobIds |-> IdleRun]
  /\ cancel = [j \in JobIds |-> IdleCancel]
  /\ callsAllowed = 0
  /\ requests = {}
  /\ symbolBatch = NoBatch
  /\ targeted = NoTargeted
  /\ indexRun = NoIndexRun
  /\ searchRun = NoSearchRun
  /\ extraction = NoExtraction

\* findDependencies(projectPath, seed, maxDepth)
D_FindDependencies ==
  /\ expansion.phase = "start"
  /\ LET st == Expand(expansion.imports, expansion.seed, expansion.maxDepth)
     IN expansion' = [expansion EXCEPT !.phase = "done",
                        !.dependencies = st.dependencies, !.reads = st.reads]
  /\ UNCHANGED <<JobVars, symbolBatch, targeted, indexRun, searchRun, extraction, probe>>

NextDependencies == D_FindDependencies

SpecDependencies == InitDependencies /\ [][NextDependencies]_vars

\* ------------------------------------------- the semantic index of a project
MaxIndexFiles == 2
MaxIndexRuns == 3

\* Modification times of a file, in milliseconds.
MtimeChoices == {999, 1000, 2500}

\* The two indexes: WeaviateService keeps lastModified as an ISO string and
\* calls the provider only with OpenAI embeddings; the relational
\* SemanticSearchService keeps a TIMESTAMP(3) and always calls the provider.
Backends == {"weaviate", "relational"}

\* Date.toISOString(), as <<seconds, milliseconds>>: the string holds the
\* time to the millisecond.
ToISOString(ms) == <<ms \div 1000, ms % 1000>>

\* new Date(isoString).getTime()
ParseDate(iso) == iso[1] * 1000 + iso[2]

\* lastModified as the index keeps it, and as it is read back for the test
StoredLastModified(backend, ms) == IF backend = "weaviate" THEN ToISOString(ms) ELSE ms
LastModifiedTime(backend, stored) == IF backend = "weaviate" THEN ParseDate(stored) ELSE stored

UpToDateOnlyWhenNewer(backend, existing, mtime) ==
  existing # {} /\ \A d \in existing : LastModifiedTime(backend, d.lastModified) > mtime

\* The file is skipped: an entry exists and its lastModified is not older
\* than the file's mtime.
UpToDate(backend, existing, mtime) ==
  existing # {} /\ \A d \in existing : LastModifiedTime(backend, d.lastModified) >= mtime

\* The provider is called for the summary and the embedding of a file.
CallsProvider(r) == r.backend = "relational" \/ r.useOpenAI

InitIndex ==
  /\ \E n \in 1 .. MaxIndexFiles : \E m \in [1 .. n -> MtimeChoices] :
       \E b \in Backends : \E o \in BOOLEAN :
         indexRun = [phase |-> "idle", backend |-> b, useOpenAI |-> o, mtimes |-> m,
                     docs |-> {}, nextUuid |-> 1, existingDocs |-> {}, pos |-> 0,
                     indexedFiles |-> 0, skippedFiles |-> 0, errors |-> 0,
                     calls |-> 0, runs |-> 0, clean |-> FALSE,
                     startedClean |-> FALSE, docsBefore |-> {}]
  /\ project = <<>>
  /\ openaiAvailable = TRUE
  /\ reports = [j \in JobIds |-> NoReport]
  /\ explRows = [j \in JobIds |-> 0]
  /\ vulnRows = [j \in JobIds |-> 0]
  /\ nextId = 1
  /\ probe = NoProbe
  /\ sa = [c \in Calls |-> IdleCall]
  /\ run = [j \in JobIds |-> IdleRun]
  /\ cancel = [j \in JobIds |-> IdleCancel]
  /\ callsAllowed = 0
  /\ requests = {}
  /\ symbolBatch = NoBatch
  /\ targeted = NoTargeted
  /\ expansion = NoExpansion
  /\ searchRun = NoSearchRun
  /\ extraction = NoExtraction

\* A source file is changed between two indexing runs.
I_Touch ==
  /\ indexRun.phase = "idle"
  /\ \E f \in DOMAIN indexRun.mtimes : \E m \in MtimeChoices \ {indexRun.mtimes[f]} :
       indexRun' = [indexRun EXCEPT !.mtimes[f] = m, !.clean = FALSE]
  /\ UNCHANGED <<JobVars, symbolBatch, targeted, expansion, searchRun, extraction, probe>>

\* indexProject: findSourceFiles, then the existing entries of the project
I_Start ==
  /\ indexRun.phase = "idle"
  /\ indexRun.runs < MaxIndexRuns
  /\ indexRun' = [indexRun EXCEPT !.phase = "loop", !.existingDocs = indexRun.docs,
                    !.pos = 1, !.indexedFiles = 0, !.skippedFiles = 0, !.errors = 0,
                    !.calls = 0, !.startedClean = indexRun.clean,
                    !.docsBefore = indexRun.docs]
  /\ UNCHANGED <<JobVars, symbolBatch, targeted, expansion, searchRun, extraction, probe>>

I_CatchLeavesLoop(r) == [r EXCEPT !.errors = @ + 1, !.pos = Len(r.mtimes) + 1]

\* catch inside the loop of indexProject: errors++, and the loop goes to
\* the next file
I_Catch(r) == [r EXCEPT !.errors = @ + 1, !.pos = @ + 1]

\* indexProject, one file of the loop: skipped when up to date; otherwise
\* summary and embedding, then update of the entry found or insert of a new
\* one. An error of the provider or of the store is counted and the loop
\* goes on.
I_File ==
  /\ indexRun.phase = "loop"
  /\ indexRun.pos <= Len(indexRun.mtimes)
  /\ LET r == indexRun
         f == r.pos
         existing == { d \in r.existingDocs : d.filePath = f }
         document == [filePath |-> f, summary |-> r.mtimes[f],
                      lastModified |-> StoredLastModified(r.backend, r.mtimes[f])]
     IN IF UpToDate(r.backend, existing, r.mtimes[f])
          THEN indexRun' = [r EXCEPT !.skippedFiles = @ + 1, !.pos = @ + 1]
          ELSE \E outcome \in {"stored", "store failed"}
                               \cup (IF CallsProvider(r) THEN {"provider failed"} ELSE {}) :
                 indexRun' =
                   IF outcome = "provider failed"
                     THEN I_Catch([r EXCEPT !.calls = @ + 1])
                   ELSE IF outcome = "store failed"
                     THEN I_Catch([r EXCEPT !.calls = IF CallsProvider(r) THEN @ + 2 ELSE @])
                     ELSE [r EXCEPT
                            !.docs = { d \in @ : d.filePath # f }
                                       \cup {document},
                            !.calls = IF CallsProvider(r) THEN @ + 2 ELSE @,
                            !.indexedFiles = @ + 1, !.pos = @ + 1]
  /\ UNCHANGED <<JobVars, symbolBatch, targeted, expansion, searchRun, extraction, probe>>

\* indexProject returns {indexedFiles, skippedFiles, errors}
I_Finish ==
  /\ indexRun.phase = "loop"
  /\ indexRun.pos > Len(indexRun.mtimes)
  /\ indexRun' = [indexRun EXCEPT !.phase = "idle", !.runs = @ + 1,
                    !.clean = (indexRun.errors = 0)]
  /\ UNCHANGED <<JobVars, symbolBatch, targeted, expansion, searchRun, extraction, probe>>

NextIndex == I_Touch \/ I_Start \/ I_File \/ I_Finish

SpecIndex == InitIndex /\ [][NextIndex]_vars

\* ------------------------------------- indexing runs that overlap in time
\* The post-upload indexing (void startProjectIndexing) and explicit index
\* requests run without waiting for one another. Every entry of the index
\* carries the id the store gave it.
InitOverlap ==
  /\ \E n \in 1 .. MaxIndexFiles : \E m \in [1 .. n -> MtimeChoices] : \E b \in Backends :
       indexRun = [phase |-> "overlap", backend |-> b, mtimes |-> m, docs |-> {},
                   nextUuid |-> 1,
                   runs |-> [i \in 1 .. MaxIndexRuns |->
                               [phase |-> "idle", existingDocs |-> {}, pos |-> 0]]]
  /\ project = <<>>
  /\ openaiAvailable = TRUE
  /\ reports = [j \in JobIds |-> NoReport]
  /\ explRows = [j \in JobIds |-> 0]
  /\ vulnRows = [j \in JobIds |-> 0]
  /\ nextId = 1
  /\ probe = NoProbe
  /\ sa = [c \in Calls |-> IdleCall]
  /\ run = [j \in JobIds |-> IdleRun]
  /\ cancel = [j \in JobIds |-> IdleCancel]
  /\ callsAllowed = 0
  /\ requests = {}
  /\ symbolBatch = NoBatch
  /\ targeted = NoTargeted
  /\ expansion = NoExpansion
  /\ searchRun = NoSearchRun
  /\ extraction = NoExtraction

\* indexProject of run i: findSourceFiles, then the entries of the project
\* as they are at this moment
O_Start(i) ==
  /\ indexRun.runs[i].phase = "idle"
  /\ indexRun' = [indexRun EXCEPT !.runs[i] =
                    [phase |-> "loop", existingDocs |-> indexRun.docs, pos |-> 1]]
  /\ UNCHANGED <<JobVars, symbolBatch, targeted, expansion, searchRun, extraction, probe>>

\* indexProject of run i, one file of the loop. Weaviate: update of the
\* entry found at the start, insert of a new entry when none was found.
\* Relational index: upsert on the key (projectId, filePath).
O_File(i) ==
  /\ indexRun.runs[i].phase = "loop"
  /\ LET r == indexRun.runs[i]
         f == r.pos
         found == { d \in r.existingDocs : d.filePath = f }
         stored == StoredLastModified(indexRun.backend, indexRun.mtimes[f])
     IN IF f > Len(indexRun.mtimes)
          THEN indexRun' = [indexRun EXCEPT !.runs[i].phase = "done"]
        ELSE IF UpToDate(indexRun.backend, found, indexRun.mtimes[f])
          THEN indexRun' = [indexRun EXCEPT !.runs[i].pos = @ + 1]
        ELSE IF indexRun.backend = "relational"
          THEN indexRun' =
                 [indexRun EXCEPT
                    !.docs = IF \E d \in @ : d.filePath = f
                               THEN { IF d.filePath = f
                                        THEN [d EXCEPT !.lastModified = stored] ELSE d :
                                      d \in @ }
                               ELSE @ \cup {[uuid |-> indexRun.nextUuid, filePath |-> f,
                                             lastModified |-> stored]},
                    !.nextUuid = IF \E d \in indexRun.docs : d.filePath = f THEN @ ELSE @ + 1,
                    !.runs[i].pos = @ + 1]
        ELSE IF found # {}
          THEN \E e \in found :
                 indexRun' =
                   [indexRun EXCEPT
                      !.docs = { IF d.uuid = e.uuid
                                   THEN [d EXCEPT !.lastModified = stored] ELSE d : d \in @ },
                      !.runs[i].pos = @ + 1]
        ELSE indexRun' =
               [indexRun EXCEPT
                  !.docs = @ \cup {[uuid |-> indexRun.nextUuid, filePath |-> f,
                                    lastModified |-> stored]},
                  !.nextUuid = @ + 1, !.runs[i].pos = @ + 1]
  /\ UNCHANGED <<JobVars, symbolBatch, targeted, expansion, searchRun, extraction, probe>>

NextOverlap ==
  \/ \E i \in 1 .. MaxIndexRuns : O_Start(i)
  \/ \E i \in 1 .. MaxIndexRuns : O_File(i)

SpecOverlap == InitOverlap /\ [][NextOverlap]_vars

\* ------------------------------------------------ search in the semantic index
MaxDocs == 3
MaxLimit == 2
MaxSimilarity == 2

\* An entry of the index: its project and its similarity to the query, on a
\* scale 0 .. MaxSimilarity. Weaviate keeps the entries of every project in
\* one collection.
IndexEntries == [projectId : {"project", "foreign"}, similarity : 0 .. MaxSimilarity]

RECURSIVE SortBySimilarity(_)
\* similarities.sort((a, b) => b.similarity - a.similarity): descending, and
\* entries of equal similarity keep their order.
SortBySimilarity(s) ==
  IF s = <<>> THEN <<>>
  ELSE LET rest == SortBySimilarity(Tail(s))
           k == Cardinality({ i \in DOMAIN rest : rest[i].similarity > Head(s).similarity })
       IN SubSeq(rest, 1, k) \o <<Head(s)>> \o SubSeq(rest, k + 1, Len(rest))

\* fileIndex.findMany({where: {projectId}}) and the similarity of each entry
FileIndexes(docs, projectId) ==
  LET picked == SelectSeq([ i \in DOMAIN docs |-> [doc |-> i, projectId |-> docs[i].projectId,
                                                   similarity |-> docs[i].similarity] ],
                          LAMBDA x : x.projectId = projectId)
  IN [ i \in DOMAIN picked |-> [doc |-> picked[i].doc, similarity |-> picked[i].similarity] ]

\* collection.query.nearVector(queryEmbedding, {limit}): the limit nearest
\* objects of the collection, nearest first. The query names no project.
NearVector(docs, limit) ==
  LET k == Min(limit, Len(docs))
  IN { o \in [1 .. k -> DOMAIN docs] :
         /\ \A i, j \in 1 .. k : i < j =>
              o[i] # o[j] /\ docs[o[i]].similarity >= docs[o[j]].similarity
         /\ \A d \in DOMAIN docs : \A i \in 1 .. k :
              (\A j \in 1 .. k : o[j] # d) => docs[d].similarity <= docs[o[i]].similarity }

\* similarity: (doc.metadata?.certainty as number) || 0
ResultSimilarity(doc, hasCertainty) == IF hasCertainty THEN doc.similarity ELSE 0

InitSearch ==
  /\ \E n \in 1 .. MaxDocs : \E docs \in [1 .. n -> IndexEntries] :
       \E limit \in 1 .. MaxLimit : \E b \in Backends :
         \E c \in IF b = "weaviate" THEN BOOLEAN ELSE {TRUE} :
           searchRun = [phase |-> "start", backend |-> b, docs |-> docs, limit |-> limit,
                        hasCertainty |-> c, objects |-> <<>>, results |-> <<>>]
  /\ project = <<>>
  /\ openaiAvailable = TRUE
  /\ reports = [j \in JobIds |-> NoReport]
  /\ explRows = [j \in JobIds |-> 0]
  /\ vulnRows = [j \in JobIds |-> 0]
  /\ nextId = 1
  /\ probe = NoProbe
  /\ sa = [c \in Calls |-> IdleCall]
  /\ run = [j \in JobIds |-> IdleRun]
  /\ cancel = [j \in JobIds |-> IdleCancel]
  /\ callsAllowed = 0
  /\ requests = {}
  /\ symbolBatch = NoBatch
  /\ targeted = NoTargeted
  /\ expansion = NoExpansion
  /\ indexRun = NoIndexRun
  /\ extraction = NoExtraction

\* searchRelevantFiles(projectId = "project", query, limit): the query
S_Query ==
  /\ searchRun.phase = "start"
  /\ \E o \in IF searchRun.backend = "weaviate"
                THEN { [ i \in DOMAIN r |-> [doc |-> r[i],
                                             similarity |-> searchRun.docs[r[i]].similarity] ] :
                       r \in NearVector(searchRun.docs, searchRun.limit) }
                ELSE {FileIndexes(searchRun.docs, "project")} :
       searchRun' = [searchRun EXCEPT !.phase = "queried", !.objects = o]
  /\ UNCHANGED <<JobVars, symbolBatch, targeted, expansion, indexRun, extraction, probe>>

\* searchRelevantFiles: the results made of the objects found
S_Return ==
  /\ searchRun.phase = "queried"
  /\ LET o == searchRun.objects
     IN searchRun' =
          [searchRun EXCEPT
             !.phase = "returned",
             !.results =
               IF searchRun.backend = "weaviate"
                 THEN [ i \in DOMAIN o |->
                          [doc |-> o[i].doc,
                           similarity |-> ResultSimilarity(o[i], searchRun.hasCertainty)] ]
                 ELSE SubSeq(SortBySimilarity(o), 1, Min(searchRun.limit, Len(o)))]
  /\ UNCHANGED <<JobVars, symbolBatch, targeted, expansion, indexRun, extraction, probe>>

NextSearch == S_Query \/ S_Return

SpecSearch == InitSearch /\ [][NextSearch]_vars

\* ------------------------------------------------- the symbols of a source file
MaxLines == 3

\* A line of a file: its text, what the parsers see of it (the declaration
\* it opens, its indentation, its braces in order).
SourceLine(text, kind, indent, braces) ==
  [text |-> text, kind |-> kind, indent |-> indent, braces |-> braces]

BlankLine == SourceLine("", "blank", 0, <<>>)

\* lines.join('\n'), a text being kept as the lines it splits into: the
\* join of no line is the empty text, which is one empty line.
Join(lines) == IF lines = <<>> THEN <<BlankLine>> ELSE lines

\* lines.slice(from, to), indices from 0, the end excluded
Slice(lines, from, to) == SubSeq(lines, from + 1, Min(to, Len(lines)))

getIndentLevel(line) == line.indent

RECURSIVE PythonBlockScan(_, _, _)
\* findPythonBlockEnd, the loop: i is an index from 0
PythonBlockScan(lines, indentLevel, i) ==
  IF i < Len(lines) /\ (lines[i + 1].kind = "blank" \/ getIndentLevel(lines[i + 1]) > indentLevel)
    THEN PythonBlockScan(lines, indentLevel, i + 1)
    ELSE i

findPythonBlockEnd(lines, startIndex) ==
  PythonBlockScan(lines, getIndentLevel(lines[startIndex + 1]), startIndex + 1)

parsePythonFile(lines) ==
  { [lineStart |-> i + 1, lineEnd |-> findPythonBlockEnd(lines, i),
     code |-> Join(Slice(lines, i, findPythonBlockEnd(lines, i)))] :
    i \in { k \in 0 .. Len(lines) - 1 : lines[k + 1].kind = "def" } }

RECURSIVE GoBlockScan(_, _, _, _, _)
\* findGoBlockEnd, the two loops: line i (from 1), character c of its
\* braces; 0 when the lines end before the block closes
GoBlockScan(lines, i, c, braceCount, foundOpeningBrace) ==
  IF i > Len(lines) THEN 0
  ELSE IF c > Len(lines[i].braces) THEN GoBlockScan(lines, i + 1, 1, braceCount, foundOpeningBrace)
  ELSE IF lines[i].braces[c] = "{" THEN GoBlockScan(lines, i, c + 1, braceCount + 1, TRUE)
  ELSE IF foundOpeningBrace /\ braceCount - 1 = 0 THEN i
  ELSE GoBlockScan(lines, i, c + 1, braceCount - 1, foundOpeningBrace)

findGoBlockEnd(lines, startLine) ==
  LET end == GoBlockScan(lines, startLine, 1, 0, FALSE)
  IN IF end = 0 THEN startLine ELSE end

parseGoFile(lines) ==
  { [lineStart |-> lineNumber, lineEnd |-> findGoBlockEnd(lines, lineNumber),
     code |-> <<lines[lineNumber]>>] :
    lineNumber \in { k \in DOMAIN lines : lines[k].kind = "func" } }

\* createSymbol of a node that starts on line start and ends on line end,
\* both counted from 0 as getLineAndCharacterOfPosition counts them
createSymbol(lines, start, end) ==
  [lineStart |-> start + 1, lineEnd |-> end + 1, code |-> Join(Slice(lines, start, end + 1))]

\* The declarations the TypeScript parser finds in a file: at most two, each
\* within the lines of the file.
NodeSets(lines) ==
  LET nodes == { n \in (0 .. Len(lines) - 1) \X (0 .. Len(lines) - 1) : n[1] <= n[2] }
  IN { ns \in SUBSET nodes : Cardinality(ns) <= 2 }

\* The lines a file of each language is made of.
LinesOf(language) ==
  CASE language = "python" ->
         { SourceLine("def f():", "def", 0, <<>>), SourceLine(" def g():", "def", 1, <<>>),
           SourceLine(" x = 1", "text", 1, <<>>), SourceLine("y = 2", "text", 0, <<>>),
           BlankLine }
    [] language = "go" ->
         { SourceLine("func f() {", "func", 0, <<"{">>),
           SourceLine("func g() {}", "func", 0, <<"{", "}">>),
           SourceLine("x := 1", "text", 0, <<>>), SourceLine("}", "text", 0, <<"}">>),
           BlankLine }
    [] OTHER ->
         { SourceLine("function f() {", "text", 0, <<"{">>),
           SourceLine("}", "text", 0, <<"}">>), BlankLine }

InitExtraction ==
  /\ \E language \in {"typescript", "python", "go"} : \E n \in 1 .. MaxLines :
       \E lines \in [1 .. n -> LinesOf(language)] :
         extraction = [phase |-> "read", language |-> language, lines |-> lines,
                       symbols |-> {}]
  /\ project = <<>>
  /\ openaiAvailable = TRUE
  /\ reports = [j \in JobIds |-> NoReport]
  /\ explRows = [j \in JobIds |-> 0]
  /\ vulnRows = [j \in JobIds |-> 0]
  /\ nextId = 1
  /\ probe = NoProbe
  /\ sa = [c \in Calls |-> IdleCall]
  /\ run = [j \in JobIds |-> IdleRun]
  /\ cancel = [j \in JobIds |-> IdleCancel]
  /\ callsAllowed = 0
  /\ requests = {}
  /\ symbolBatch = NoBatch
  /\ targeted = NoTargeted
  /\ expansion = NoExpansion
  /\ indexRun = NoIndexRun
  /\ searchRun = NoSearchRun

\* parseFile: the symbols of the file, by its language
X_ParseFile ==
  /\ extraction.phase = "read"
  /\ \E symbols \in CASE extraction.language = "python" -> {parsePythonFile(extraction.lines)}
                      [] extraction.language = "go" -> {parseGoFile(extraction.lines)}
                      [] OTHER -> { { createSymbol(extraction.lines, n[1], n[2]) : n \in ns } :
                                    ns \in NodeSets(extraction.lines) } :
       extraction' = [extraction EXCEPT !.phase = "parsed", !.symbols = symbols]
  /\ UNCHANGED <<JobVars, symbolBatch, targeted, expansion, indexRun, searchRun>>

NextExtraction == X_ParseFile

SpecExtraction == InitExtraction /\ [][NextExtraction]_vars

\* ------------------------------------- the recommendation checks of a symbol
HighComplexity == 10
ModerateComplexity == 5
LongFunctionLines == 50
ManyParameters == 5
DeepNesting == 4

\* analyzeSymbol(symbol): the findings pushed for a symbol with the given
\* measures, each named by the check that pushed it, in the order pushed
analyzeSymbol(sym) ==
  LET isFunction == sym.type \in {"function", "method"}
  IN (IF isFunction /\ sym.complexity > HighComplexity
        THEN <<[check |-> "cyclomatic-complexity", id |-> "complex-function"]>> ELSE <<>>)
     \o (IF isFunction /\ sym.complexity > ModerateComplexity
           THEN <<[check |-> "cyclomatic-complexity", id |-> "moderate-complexity"]>> ELSE <<>>)
     \o (IF sym.lineCount > LongFunctionLines
           THEN <<[check |-> "length", id |-> "long-function"]>> ELSE <<>>)
     \o (IF isFunction /\ sym.paramCount > ManyParameters
           THEN <<[check |-> "parameter-count", id |-> "many-params"]>> ELSE <<>>)
     \o (IF sym.nestingLevel > DeepNesting
           THEN <<[check |-> "nesting-depth", id |-> "deep-nesting"]>> ELSE <<>>)

\* The symbols analysed: measures at and around each threshold.
InitSymbol ==
  /\ \E t \in {"function", "method", "class"} :
       \E c \in {ModerateComplexity, ModerateComplexity + 1, HighComplexity, HighComplexity + 1} :
         \E l \in {LongFunctionLines, LongFunctionLines + 1} :
           \E a \in {ManyParameters, ManyParameters + 1} :
             \E d \in {DeepNesting, DeepNesting + 1} :
               probe = [phase |-> "symbol", type |-> t, complexity |-> c, lineCount |-> l,
                        paramCount |-> a, nestingLevel |-> d, recommendations |-> <<>>]
  /\ project = <<>>
  /\ openaiAvailable = TRUE
  /\ reports = [j \in JobIds |-> NoReport]
  /\ explRows = [j \in JobIds |-> 0]
  /\ vulnRows = [j \in JobIds |-> 0]
  /\ nextId = 1
  /\ sa = [c \in Calls |-> IdleCall]
  /\ run = [j \in JobIds |-> IdleRun]
  /\ cancel = [j \in JobIds |-> IdleCancel]
  /\ callsAllowed = 0
  /\ requests = {}
  /\ symbolBatch = NoBatch
  /\ targeted = NoTargeted
  /\ expansion = NoExpansion
  /\ indexRun = NoIndexRun
  /\ searchRun = NoSearchRun
  /\ extraction = NoExtraction

\* analyzeParsedFile: recommendations.push(...analyzeSymbol(symbol))
A_AnalyzeSymbol ==
  /\ probe.phase = "symbol"
  /\ probe' = [probe EXCEPT !.phase = "analyzed", !.recommendations = analyzeSymbol(probe)]
  /\ UNCHANGED <<project, openaiAvailable, reports, explRows, vulnRows, nextId, sa, run, cancel, callsAllowed, requests, symbolBatch, targeted, expansion, indexRun, searchRun, extraction>>

NextSymbol == A_AnalyzeSymbol

SpecSymbol == InitSymbol /\ [][NextSymbol]_vars

\* --------------------------------- the prompt of the cohesive explanation
MaxPromptFiles == 12

BaseLimit == 5000
MinLimit == 2000
PromptBudget == 20000

\* Math.min(baseLimit, Math.max(2000, Math.floor(20000 / fileCount)))
maxContentLength(fileCount) ==
  LET adaptiveLimit == IF PromptBudget \div fileCount > MinLimit
                         THEN PromptBudget \div fileCount ELSE MinLimit
  IN Min(BaseLimit, adaptiveLimit)

\* The files sent: their number, and the length of the content of each in
\* characters (below the lowest budget, between the two, above the highest).
InitPrompt ==
  /\ \E n \in 1 .. MaxPromptFiles : \E l \in {MinLimit \div 2, BaseLimit \div 2, BaseLimit + 1} :
       probe = [phase |-> "prompt", fileCount |-> n, contentLength |-> l,
                index |-> 0, content |-> 0]
  /\ project = <<>>
  /\ openaiAvailable = TRUE
  /\ reports = [j \in JobIds |-> NoReport]
  /\ explRows = [j \in JobIds |-> 0]
  /\ vulnRows = [j \in JobIds |-> 0]
  /\ nextId = 1
  /\ sa = [c \in Calls |-> IdleCall]
  /\ run = [j \in JobIds |-> IdleRun]
  /\ cancel = [j \in JobIds |-> IdleCancel]
  /\ callsAllowed = 0
  /\ requests = {}
  /\ symbolBatch = NoBatch
  /\ targeted = NoTargeted
  /\ expansion = NoExpansion
  /\ indexRun = NoIndexRun
  /\ searchRun = NoSearchRun
  /\ extraction = NoExtraction

\* buildCohesiveExplanationPrompt, one file of relevantFiles.forEach: the
\* content of the file, cut to maxContentLength characters, goes into the
\* prompt. content counts the characters of file content in the prompt.
P_AppendFile ==
  /\ probe.phase = "prompt"
  /\ probe' = [probe EXCEPT
                 !.index = @ + 1,
                 !.content = @ + Min(probe.contentLength, maxContentLength(probe.fileCount)),
                 !.phase = IF probe.index + 1 = probe.fileCount THEN "built" ELSE "prompt"]
  /\ UNCHANGED <<project, openaiAvailable, reports, explRows, vulnRows, nextId, sa, run, cancel, callsAllowed, requests, symbolBatch, targeted, expansion, indexRun, searchRun, extraction>>

NextPrompt == P_AppendFile

SpecPrompt == InitPrompt /\ [][NextPrompt]_vars

\* ------------------------------------------------------------ the claims
NoCancelRequest(j) == cancel[j].pc = "idle"

\* The status transitions a run may write to a job nobody cancels.
RunTransitions ==
  { <<"PENDING", "PROCESSING">>, <<"PROCESSING", "PROCESSING">>,
    <<"PROCESSING", "COMPLETED">>, <<"PROCESSING", "FAILED">> }

\* C1: for a job that gets no cancel request the status written goes
\* PENDING, PROCESSING, then one of COMPLETED or FAILED, and once a terminal
\* status is written no later write of the run changes it.
C1_StatusHistory ==
  [][\A j \in JobIds :
       (reports[j].exists /\ reports'[j].exists
          /\ NoCancelRequest(j) /\ cancel'[j].pc = "idle"
          /\ reports'[j].status # reports[j].status)
       => /\ <<reports[j].status, reports'[j].status>> \in RunTransitions
          /\ reports[j].status \notin Terminal]_vars

\* C2: once cancel has replaced PENDING or PROCESSING by CANCELLED, the
\* status of the job is CANCELLED in every later state.
C2_CancelledStays ==
  \A j \in JobIds :
    (cancel[j].pc = "returned" /\ cancel[j].result
       /\ cancel[j].replaced \in {"PENDING", "PROCESSING"} /\ reports[j].exists)
    => reports[j].status = "CANCELLED"

\* The phases that follow the per-file loop of an explanation run.
LaterPhases == {"pe_cohesive", "pfa_status70", "pfa_recs", "pfa_status90", "pfa_write"}

\* C3: once CANCELLED is recorded while the per-file loop runs, no file
\* after the one in progress is counted or named in a progress update, and
\* no later phase is executed.
C3_CancelStopsLoop ==
  \A j \in JobIds :
    (cancel[j].pc = "returned" /\ cancel[j].result /\ cancel[j].inLoop)
    => /\ run[j].processedFiles <= cancel[j].atFile
       /\ reports[j].stepFile <= cancel[j].atFile
       /\ run[j].pc \notin LaterPhases

\* C4: the percentage written to a job never decreases from its creation
\* until its first terminal status.
C4_MonotonicPercentage ==
  [][\A j \in JobIds :
       (reports[j].exists /\ reports'[j].exists
          /\ reports[j].status \notin Terminal /\ reports'[j].status \notin Terminal)
       => reports'[j].percentage >= reports[j].percentage]_vars

\* An error other than the cancellation left the recoverable loops of the
\* explanation run of job j.
ErrorEscaped(j) == run[j].error \notin {"none", "AnalysisCancellationError"}

\* C5: when an error escapes the explanation run, the job ends FAILED with
\* the message of the error, and is never reported COMPLETED afterwards.
C5_EscapedErrorFails ==
  \A j \in JobIds :
    (run[j].pc = "done" /\ ErrorEscaped(j) /\ NoCancelRequest(j) /\ reports[j].exists)
    => /\ reports[j].status = "FAILED"
       /\ reports[j].error = run[j].error

ZeroHitSelected(j) ==
  run[j].pc = "pe_progress0" /\ run[j].query /\ ~run[j].hits

\* C7: a targeted run whose retrieval returns no hit parses the project
\* with the language filter as a run without query does, raises no error,
\* and its job reaches COMPLETED (unless a cancel request arrives).
C7_ZeroHitFallback ==
  /\ [](\A j \in JobIds :
          ZeroHitSelected(j)
          => /\ run[j].parsed = ParseProject(project, run[j].languages)
             /\ run[j].error = "none")
  /\ \A j \in JobIds :
       ZeroHitSelected(j) ~> (reports[j].status = "COMPLETED" \/ ~NoCancelRequest(j))

\* A targeted run that fell back to the whole project, where the language
\* filter drops a file, has finished COMPLETED.
C7_Witness ==
  \E j \in JobIds :
    /\ run[j].pc = "done" /\ run[j].query /\ ~run[j].hits /\ run[j].error = "none"
    /\ run[j].parsed # <<>> /\ Len(run[j].parsed) < Len(project)
    /\ reports[j].status = "COMPLETED"
    /\ reports[j].result.filesAnalyzed = Len(run[j].parsed)

\* C10: every job reaches a terminal status: once its background run has
\* returned, the job is COMPLETED, FAILED or CANCELLED.
C10_RunEndsTerminal ==
  \A j \in JobIds :
    (run[j].pc = "done" /\ reports[j].exists) => reports[j].status \in Terminal

\* C9: for a batch of N symbols whose provider call returns without a
\* provider error, N explanations are produced and N rows are persisted,
\* the i-th row for the i-th symbol, whatever the raw response contained.
C9_OneRowPerSymbol ==
  (symbolBatch.phase = "done" /\ symbolBatch.response.kind # "error")
  => /\ Len(symbolBatch.explanations) = Len(symbolBatch.symbols)
     /\ Len(symbolBatch.persisted) = Len(symbolBatch.symbols)
     /\ \A i \in 1 .. Len(symbolBatch.persisted) : symbolBatch.persisted[i].symbol = symbolBatch.symbols[i]

\* C9, the responses the code handles as claimed: anything but an array.
C9_PlaceholdersWhenUnparsed ==
  (symbolBatch.phase = "done" /\ symbolBatch.response.kind \notin {"error", "array"})
  => /\ Len(symbolBatch.explanations) = Len(symbolBatch.symbols)
     /\ Len(symbolBatch.persisted) = Len(symbolBatch.symbols)
     /\ \A i \in 1 .. Len(symbolBatch.persisted) : symbolBatch.persisted[i].symbol = symbolBatch.symbols[i]

\* The file a path of the working list names.
FileOf(filePath) == FullPath(filePath).path

\* The local files a seed imports: each relative specifier taken from the
\* directory of the seed, kept when it names a file of the project.
LocalDependencies(imports, seed) ==
  { FileOf(Path(seed.dirs \o imports[seed][i].dirs, imports[seed][i].file.base, "ts")) :
      i \in { k \in DOMAIN imports[seed] :
                /\ imports[seed][k].dirs # <<>>
                /\ Readable(imports, Path(seed.dirs \o imports[seed][k].dirs,
                                          imports[seed][k].file.base, "ts")) } }

SeedsAndDependencies ==
  { targeted.relevantFiles[i] : i \in DOMAIN targeted.relevantFiles }
    \cup UNION { LocalDependencies(targeted.imports, targeted.relevantFiles[i]) :
                   i \in DOMAIN targeted.relevantFiles }

\* C8: in targeted mode with at least one retrieved file, the files parsed
\* and explained are exactly the retrieved files and their depth-1 local
\* dependencies, each file once, and filesAnalyzed is the size of that union.
C8_TargetedWorkingSet ==
  targeted.phase = "done"
  => /\ { FileOf(targeted.parsedFiles[i]) : i \in DOMAIN targeted.parsedFiles }
          = SeedsAndDependencies
     /\ \A i, k \in DOMAIN targeted.parsedFiles :
          i # k => FileOf(targeted.parsedFiles[i]) # FileOf(targeted.parsedFiles[k])
     /\ targeted.filesAnalyzed = Cardinality(SeedsAndDependencies)

\* C8, the part the code keeps: every retrieved file is parsed.
C8_SeedsParsed ==
  targeted.phase = "done"
  => \A i \in DOMAIN targeted.relevantFiles :
       \E k \in DOMAIN targeted.parsedFiles :
         targeted.parsedFiles[k] = targeted.relevantFiles[i]

\* C11: a startAnalysis call for a project that does not exist or that the
\* caller does not own is rejected before any change of state: the step
\* that rejects it creates no job, deletes nothing and starts no run, and
\* the rejected call never takes another step.
C11_RejectedStartChangesNothing ==
  /\ [](\A c \in Calls :
          (sa[c].pc # "idle" /\ ~FindByIdForUser(sa[c].userId, sa[c].projectId))
          => sa[c].pc = "rejected" /\ sa[c].job = 0 /\ sa[c].oldIds = {})
  /\ [][\A c \in Calls :
          /\ (sa[c].pc = "idle" /\ sa'[c].pc = "rejected")
             => UNCHANGED <<reports, explRows, vulnRows, run, nextId>>
          /\ sa[c].pc = "rejected" => sa'[c] = sa[c]]_vars

\* The second call was rejected while the job of the first one, with rows
\* of its own, is still being run.
C11_Witness ==
  /\ sa[2].pc = "rejected"
  /\ reports[1].exists /\ explRows[1] > 0 /\ run[1].pc # "done"

\* C12: getStatus and cancel by a caller who does not own the project of
\* the job fail as NotFound: the caller gets no data of the job and the
\* job's status and progress stay as they are.
C12_ForeignCallerGetsNotFound ==
  \A j \in JobIds :
    /\ reports[j].exists => ~GetAnalysisStatus("other", j).found
    /\ (cancel[j].pc = "returned" /\ cancel[j].userId = "other") => ~cancel[j].result

\* C13: when a run finishes with no error and no cancel request, the job is
\* COMPLETED with percentage 100 and the result of its type: for EXPLANATION
\* the counts of the run (files, symbols, explained symbols, targeted flag),
\* for RECOMMENDATION and FULL the payload their last phase wrote. The final
\* status write leaves the result in place.
C13_SuccessfulRunCompleted ==
  \A j \in JobIds :
    (run[j].pc = "done" /\ run[j].error = "none" /\ NoCancelRequest(j) /\ reports[j].exists)
    => /\ reports[j].status = "COMPLETED"
       /\ reports[j].percentage = 100
       /\ run[j].type = "EXPLANATION" => reports[j].result = ExplanationResult(run[j])
       /\ run[j].type = "RECOMMENDATION" => reports[j].result.kind = "recommendation"
       /\ run[j].type = "FULL"
            => /\ reports[j].result.kind = "full"
               /\ reports[j].result.filesAnalyzed = Len(run[j].parsed)
               /\ reports[j].result.explainedSymbols = run[j].totalExplained

\* A targeted explanation run that explained symbols has finished.
C13_Witness ==
  \E j \in JobIds :
    /\ run[j].pc = "done" /\ run[j].error = "none" /\ NoCancelRequest(j)
    /\ run[j].type = "EXPLANATION" /\ run[j].query
    /\ reports[j].status = "COMPLETED"
    /\ reports[j].result.explainedSymbols > 0

\* The project files reachable from a set of files by a chain of at most d
\* local imports.
RECURSIVE ReachableWithin(_, _, _)
ReachableWithin(imports, files, d) ==
  IF d = 0 THEN {}
  ELSE LET direct == UNION { LocalDependencies(imports, f) : f \in files }
       IN direct \cup ReachableWithin(imports, direct, d - 1)

\* The project files that the returned dependency paths name.
ReturnedFiles ==
  { FileOf(expansion.dependencies[i]) :
      i \in { k \in DOMAIN expansion.dependencies :
                Readable(expansion.imports, expansion.dependencies[k]) } }

\* C14: the dependencies returned for a seed and maxDepth d contain every
\* project file reachable from the seed by at most d local imports,
\* whatever the order of the imports and the chain a file is first reached by.
C14_ReachableAreReturned ==
  expansion.phase = "done"
  => ReachableWithin(expansion.imports, {expansion.seed}, expansion.maxDepth)
       \subseteq ReturnedFiles

\* C15: every file returned for a seed and maxDepth d is reachable from the
\* seed by at most d local imports; with d = 1 these are the direct imports.
C15_ReturnedAreReachable ==
  expansion.phase = "done"
  => ReturnedFiles
       \subseteq ReachableWithin(expansion.imports, {expansion.seed}, expansion.maxDepth)

\* C16: an expansion ends, and it has read each file at most once.
C16_EachFileReadOnce ==
  expansion.phase = "done"
  => \A i, k \in DOMAIN expansion.reads : i # k => expansion.reads[i] # expansion.reads[k]

\* C17: an indexing run that starts after a run that ended with no error,
\* with no source file changed since, indexes nothing, skips every source
\* file, calls the provider for no summary or embedding, and leaves every
\* entry of the index as it was.
C17_SecondRunSkipsAll ==
  (indexRun.phase \in {"idle", "loop"} /\ indexRun.startedClean)
  => /\ indexRun.indexedFiles = 0
     /\ indexRun.errors = 0
     /\ indexRun.calls = 0
     /\ indexRun.docs = indexRun.docsBefore
     /\ indexRun.phase = "idle" => indexRun.skippedFiles = Len(indexRun.mtimes)

\* A second run over two indexed files, one with a time that is not a whole
\* second, has returned.
C17_Witness ==
  /\ indexRun.phase = "idle" /\ indexRun.startedClean /\ indexRun.runs >= 2
  /\ Len(indexRun.mtimes) = 2 /\ indexRun.skippedFiles = 2
  /\ Cardinality(indexRun.docs) = 2
  /\ \E f \in DOMAIN indexRun.mtimes : indexRun.mtimes[f] % 1000 # 0

\* C18: a search of the project returns at most limit results, in
\* non-increasing order of similarity, and every indexed file of the project
\* that is left out has a similarity no greater than the lowest one returned.
C18_TopLimitBySimilarity ==
  searchRun.phase = "returned"
  => LET res == searchRun.results
     IN /\ Len(res) <= searchRun.limit
        /\ \A i, j \in DOMAIN res : i < j => res[i].similarity >= res[j].similarity
        /\ \A d \in DOMAIN searchRun.docs :
             (searchRun.docs[d].projectId = "project" /\ \A i \in DOMAIN res : res[i].doc # d)
             => \A i \in DOMAIN res : searchRun.docs[d].similarity <= res[i].similarity

\* C19: every symbol of a file has 1 <= lineStart <= lineEnd <= the number
\* of lines of the file, and its code is the lines lineStart .. lineEnd of
\* the file joined by newlines.
C19_SymbolSpansItsLines ==
  extraction.phase = "parsed"
  => \A sym \in extraction.symbols :
       /\ 1 <= sym.lineStart /\ sym.lineStart <= sym.lineEnd
       /\ sym.lineEnd <= Len(extraction.lines)
       /\ sym.code = Join(SubSeq(extraction.lines, sym.lineStart, sym.lineEnd))

\* C20: in every interleaving of cancel with the background run, the
\* CANCELLED write of a cancel call never meets a job that is already
\* COMPLETED or FAILED: such a job keeps its status and its progress, and a
\* call that returns true wrote to a job that was not yet terminal.
C20_CancelSparesTerminal ==
  [][\A j \in JobIds :
       (cancel[j].pc = "write" /\ cancel'[j].pc = "returned"
          /\ reports[j].status \in {"COMPLETED", "FAILED"})
       => /\ reports'[j].status = reports[j].status
          /\ reports'[j].percentage = reports[j].percentage
          /\ ~cancel'[j].result]_vars

\* C21: in every interleaving of two startAnalysis calls of one type on the
\* project, once both have returned the project has exactly one job of
\* that type, and no CodeExplanation or Vulnerability row belongs to a job
\* that no longer exists.
C21_ConcurrentStartsLeaveOneJob ==
  \A c, d \in Calls :
    (c # d /\ sa[c].pc = "returned" /\ sa[d].pc = "returned" /\ sa[c].type = sa[d].type)
    => /\ Cardinality({ j \in JobIds : reports[j].exists /\ reports[j].type = sa[c].type }) = 1
       /\ \A j \in JobIds : ~reports[j].exists => explRows[j] = 0 /\ vulnRows[j] = 0

\* The targeted run of explanation job j went through every phase with a
\* provider, and its cohesive synthesis failed.
CohesiveFailed(j) ==
  /\ run[j].pc = "done" /\ run[j].type = "EXPLANATION" /\ run[j].query
  /\ run[j].error = "none" /\ ~run[j].explanation
  /\ openaiAvailable /\ NoCancelRequest(j) /\ reports[j].exists

\* C22: in targeted mode, when the provider call of the cohesive synthesis
\* fails after the per-symbol work, the job is FAILED, the CodeExplanation
\* rows written for it remain, and its result has no explanation field.
C22_CohesiveFailureFailsJob ==
  \A j \in JobIds :
    CohesiveFailed(j)
    => /\ reports[j].status = "FAILED"
       /\ explRows[j] = run[j].totalExplained
       /\ ~reports[j].result.explanation

\* C23: a provider error in a symbol batch leaves the status of the job as
\* it is and does not stop the run: every file of the working set is
\* processed and the job ends COMPLETED, its result.explainedSymbols being
\* the number of symbols whose rows were stored.
C23_BatchErrorKeepsRunGoing ==
  \A j \in JobIds :
    (run[j].providerError /\ run[j].type = "EXPLANATION"
       /\ NoCancelRequest(j) /\ reports[j].exists)
    => IF run[j].pc = "done"
         THEN /\ reports[j].status = "COMPLETED"
              /\ run[j].processedFiles = Len(run[j].parsed)
              /\ reports[j].result.filesAnalyzed = Len(run[j].parsed)
              /\ reports[j].result.explainedSymbols = explRows[j]
         ELSE reports[j].status \in {"PROCESSING", "COMPLETED"} /\ run[j].error = "none"

\* A run whose first file lost a batch to a provider error has finished
\* after storing the rows of a later batch.
C23_Witness ==
  \E j \in JobIds :
    /\ run[j].providerError /\ run[j].type = "EXPLANATION" /\ run[j].pc = "done"
    /\ NoCancelRequest(j) /\ reports[j].exists
    /\ Len(run[j].parsed) = 2 /\ explRows[j] > 0
    /\ explRows[j] < SumSymbols(run[j].parsed)

\* C24: within a run, the CodeExplanation rows of a batch are in the store
\* before the provider call of the next batch starts, and the rows stored
\* before a cancellation or a failure are still there once the job is
\* CANCELLED or FAILED.
C24_RowsStoredBatchByBatch ==
  [][\A j \in JobIds :
       /\ explRows'[j] >= explRows[j]
       /\ run'[j].pc = "es_call"
            => /\ run'[j].pending = 0
               /\ explRows'[j] = run'[j].totalExplained + run'[j].explainedCount]_vars

\* A job was cancelled, or has failed, after the rows of a batch were
\* stored, and its run is over.
C24_Witness ==
  \E j \in JobIds :
    /\ reports[j].status \in {"CANCELLED", "FAILED"} /\ run[j].pc = "done"
    /\ explRows[j] >= BatchSize

\* C25: after any sequence or interleaving of indexing runs on a project the
\* index holds at most one entry per file path of the project.
C25_OneEntryPerFile ==
  indexRun.phase = "overlap"
  => \A f \in DOMAIN indexRun.mtimes :
       Cardinality({ d \in indexRun.docs : d.filePath = f }) <= 1

\* C26: when summarising, embedding or storing a file fails during an
\* indexing run, errors grows by one, the entries of the index stay as they
\* are and none marks the failed file as current, the loop goes on with the
\* next file, and the run returns with indexedFiles + skippedFiles + errors
\* equal to the number of candidate files.
C26_FileFailureIsCounted ==
  [][indexRun.phase = "loop"
     => /\ indexRun'.errors # indexRun.errors
             => /\ indexRun'.errors = indexRun.errors + 1
                /\ indexRun'.phase = "loop" /\ indexRun'.pos = indexRun.pos + 1
                /\ indexRun'.docs = indexRun.docs
                /\ ~UpToDate(indexRun.backend,
                             { d \in indexRun'.docs : d.filePath = indexRun.pos },
                             indexRun.mtimes[indexRun.pos])
        /\ indexRun'.phase = "idle"
             => indexRun'.indexedFiles + indexRun'.skippedFiles + indexRun'.errors
                  = Len(indexRun.mtimes)]_vars

\* A run over two files has returned: the first file failed and has no
\* entry, the second was indexed after it.
C26_Witness ==
  /\ indexRun.phase = "idle"
  /\ indexRun.runs = 1 /\ indexRun.errors = 1 /\ indexRun.indexedFiles = 1
  /\ \E d \in indexRun.docs : d.filePath = 2
  /\ \A d \in indexRun.docs : d.filePath # 1

\* C27: every result of a search of the project is an index entry of that
\* project: no entry of another project is among the results.
C27_ResultsOfRequestedProject ==
  searchRun.phase = "returned"
  => \A i \in DOMAIN searchRun.results :
       searchRun.docs[searchRun.results[i].doc].projectId = "project"

\* C28: for every symbol, each recommendation check (cyclomatic complexity,
\* length, parameter count, nesting depth) emits at most one finding.
C28_OneFindingPerCheck ==
  probe.phase = "analyzed"
  => \A i, k \in DOMAIN probe.recommendations :
       probe.recommendations[i].check = probe.recommendations[k].check => i = k

\* C29: in every state of an explanation job 0 <= processedFiles <=
\* totalFiles, and once the job is COMPLETED processedFiles, totalFiles and
\* result.filesAnalyzed are the same number.
C29_ProgressCountsFiles ==
  \A j \in JobIds :
    (reports[j].exists /\ reports[j].type = "EXPLANATION")
    => /\ 0 <= reports[j].processedFiles
       /\ reports[j].processedFiles <= reports[j].totalFiles
       /\ reports[j].status = "COMPLETED"
            => /\ reports[j].processedFiles = reports[j].totalFiles
               /\ reports[j].totalFiles = reports[j].result.filesAnalyzed

\* C30: for every number n >= 1 of files sent to the cohesive synthesis the
\* per-file character budget lies between 2000 and 5000, does not grow
\* with n, and the file content placed in the prompt stays within one
\* bound for every n, the 20000 characters the budget is derived from.
C30_PromptContentBounded ==
  probe.phase \in {"prompt", "built"}
  => /\ MinLimit <= maxContentLength(probe.fileCount)
     /\ maxContentLength(probe.fileCount) <= BaseLimit
     /\ probe.fileCount > 1
          => maxContentLength(probe.fileCount) <= maxContentLength(probe.fileCount - 1)
     /\ probe.content <= PromptBudget
====
